---- MODULE Spec2Model ----
(***************************************************************************)
(* The event-sourced collaboration engine of crosswithfriends' backend:    *)
(* the event store (GameEventRepository / RoomEventRepository.addEvent and *)
(* getEvents over the game_events / room_events tables), the stream hub    *)
(* (SocketManager: join, leave, sync, game_event, room_event), the         *)
(* services that append without the hub (GameService, RoomService) and the *)
(* solve recorder (SolveService.recordSolve over puzzle_solves / puzzles). *)
(*                                                                         *)
(* The relational store is PostgreSQL at READ COMMITTED: every statement   *)
(* reads the rows committed when it runs, a transaction's own writes stay  *)
(* private until its commit, an insert that meets a committed row with the *)
(* same unique key fails with 23505, and one that meets an uncommitted row *)
(* with the same key waits for that transaction to end.  Every `await` of  *)
(* the code is a point where other handlers run.                           *)
(***************************************************************************)
EXTENDS Integers, Sequences, FiniteSets, TLC

(* ---- bounds ---- *)
NumWriters == 3
NumHandlers == 2
NumSockets == 2
NumSolveCalls == 2

(* ---- program constants ---- *)
maxRetries == 5

BurstTasks == maxRetries + 1
Max(a, b) == IF a > b THEN a ELSE b
Tasks == 1..Max(BurstTasks, Max(NumWriters, NumHandlers))
Writers == 1..NumWriters
Handlers == 1..NumHandlers
Sockets == 1..NumSockets
SolveCalls == 1..NumSolveCalls

GameIds == {"g1", "g2"}
RoomIds == {"r1"}
ExistingPids == {"p1", "p2"}
RequestPids == ExistingPids \cup {"p0"}
TimesToSolve == {10, 20}

SocketKinds == {"game_event", "room_event"}
GameKinds == {"game_event", "createGame", "addGameEvent"}
RoomKinds == {"room_event", "createRoom", "addRoomEvent"}
GameEventTypes == {"cell_fill"}
RoomEventTypes == {"user_join"}

VARIABLES
    events,          \* table name -> set of committed rows
    puzzles,         \* pid -> times_solved, for the puzzles that exist
    puzzleSolves,    \* set of committed puzzle_solves rows
    pc,              \* task -> position in its handler
    req,             \* task -> the operation it runs
    attempt,         \* task -> addEvent's loop variable
    sequenceNumber,  \* task -> addEvent's sequenceNumber of the running attempt
    txRow,           \* task -> uncommitted inserted event row (at most one)
    thrown,          \* task -> the error its operation threw, "none" if none
    rooms,           \* socket -> set of socket.io rooms it has joined
    inbox,           \* socket -> event frames pushed to it, in arrival order
    errors,          \* socket -> tasks whose handler sent it an error frame
    synced,          \* socket -> reply of its last sync request
    owed,            \* task -> sockets joined to the stream since its commit
    acks,            \* task -> the calls of its request's ack, in order
    spc,             \* solve call -> position in recordSolve
    sreq,            \* solve call -> its (pid, gid, time_to_solve)
    txSolve,         \* solve call -> uncommitted inserted solve row
    txIncr,          \* solve call -> pids whose row it has updated and locked
    sError,          \* solve call -> statement whose failure it rethrew
    gameState,       \* what the last getGameState call returned
    snapshots,       \* gid -> rows of game_snapshots for it (at most one)
    roomState,       \* what the last getRoomState call returned
    catalog,         \* rows of the puzzles table that listPublic reads
    pages,           \* what the last two listPublic calls returned
    incrementCalls,  \* pid -> incrementSolveCount calls that have taken effect
    migrationRun,    \* runner -> its runMigrations call: position, loop index, ...
    advisoryLock,    \* the runner whose session holds the migration lock, 0 if none
    drizzle_migrations,  \* hashes of the rows of drizzle_migrations, in id order
    applied,         \* migration files whose SQL was committed, in commit order
    bus,             \* instance -> bus messages published to it, not yet received
    delivered        \* socket -> number of pushed frames its client has taken

storeVars == <<events, puzzles, puzzleSolves>>
taskVars == <<pc, req, attempt, sequenceNumber, txRow, thrown>>
sockVars == <<rooms, inbox, errors, synced, owed, acks>>
solveVars == <<spc, sreq, txSolve, txIncr, sError>>
migVars == <<migrationRun, advisoryLock, drizzle_migrations, applied>>
readVars == <<gameState, snapshots, roomState, catalog, pages, incrementCalls, migVars>>
busVars == <<bus, delivered>>
vars == <<events, puzzles, puzzleSolves, pc, req, attempt, sequenceNumber, txRow, thrown,
          rooms, inbox, errors, synced, owed, acks, spc, sreq, txSolve, txIncr, sError,
          gameState, snapshots, roomState, catalog, pages, incrementCalls,
          migrationRun, advisoryLock, drizzle_migrations, applied, bus, delivered>>

\* The processes that call runMigrations at startup.
NumRunners == 2
Runners == 1..NumRunners

\* A runner that has not called runMigrations.
NoRun == [pc |-> "idle", file |-> 0, tx |-> <<>>, runs |-> 0, error |-> "none",
          warned |-> FALSE]

\* The content of an event that has nothing but its type (the model's
\* cell_fill, user_join, ...).
NoBody == [none |-> TRUE]

NoReq == [kind |-> "none", id |-> "none", pid |-> "none", type |-> "none",
          draft |-> NoBody, body |-> NoBody]
NoSolveReq == [pid |-> "none", gid |-> "none", time_to_solve |-> 0,
               revealedSquaresCount |-> 0, checkedSquaresCount |-> 0]

(* ---- schema ---- *)

\* The table an operation writes: game_events or room_events.
TableOf(kind) == IF kind \in GameKinds THEN "game_events" ELSE "room_events"

\* Socket.io room of a stream: `game-${gid}` / `room-${rid}`.
RoomName(kind, id) == IF kind \in GameKinds THEN <<"game", id>> ELSE <<"room", id>>

AllRooms == {<<"game", g>> : g \in GameIds} \cup {<<"room", r>> : r \in RoomIds}

\* The socket whose connection a handler task serves.
SenderOf(t) == ((t - 1) % NumSockets) + 1

\* The payload a task persists (and broadcasts): the event's type, the rest
\* of the event object and the request it came from.
PayloadOf(t) == [type |-> req[t].type, src |-> t, body |-> req[t].body]

NoUniqueIndex(rows, row) == FALSE

\* uniqueIndex(...).on(table.gid, table.sequenceNumber): does `row` collide?
UniqueViolation(rows, row) ==
    \E r \in rows : r.id = row.id /\ r.sequenceNumber = row.sequenceNumber

(* ---- event repositories ---- *)

StreamRows(rows, id) == {r \in rows : r.id = id}

NextSequenceFromZero(rows, id) ==
    LET seqs == {r.sequenceNumber : r \in StreamRows(rows, id)}
    IN  IF seqs = {} THEN 0 ELSE (CHOOSE m \in seqs : \A n \in seqs : n <= m) + 1

\* SELECT sequence_number ... ORDER BY sequence_number DESC LIMIT 1, then
\* (maxSeq != null ? Number(maxSeq) : 0) + 1
NextSequenceNumber(rows, id) ==
    LET seqs == {r.sequenceNumber : r \in StreamRows(rows, id)}
    IN  (IF seqs = {} THEN 0 ELSE CHOOSE m \in seqs : \A n \in seqs : n <= m) + 1

UpsertByStream(rows, row) == {r \in rows : r.id # row.id} \cup {row}

\* INSERT INTO ... VALUES (row), made visible by the transaction's commit.
InsertRow(rows, row) == rows \cup {row}

\* ORDER BY sequence_number ASC over a set of rows (ties, which the unique
\* index excludes, in draft order).
RECURSIVE OrderBySeqAsc(_)
OrderBySeqAsc(rows) ==
    IF rows = {} THEN <<>>
    ELSE LET first == CHOOSE r \in rows : \A o \in rows :
                         \/ r.sequenceNumber < o.sequenceNumber
                         \/ /\ r.sequenceNumber = o.sequenceNumber
                            /\ r.eventPayload.src <= o.eventPayload.src
         IN  <<first>> \o OrderBySeqAsc(rows \ {first})

RECURSIVE OrderBySeqDesc(_)
OrderBySeqDesc(rows) ==
    IF rows = {} THEN <<>>
    ELSE LET first == CHOOSE r \in rows : \A o \in rows :
                         \/ r.sequenceNumber > o.sequenceNumber
                         \/ /\ r.sequenceNumber = o.sequenceNumber
                            /\ r.eventPayload.src <= o.eventPayload.src
         IN  <<first>> \o OrderBySeqDesc(rows \ {first})

GetEventsDesc(rows, id) ==
    LET sorted == OrderBySeqDesc(StreamRows(rows, id))
    IN  [i \in 1..Len(sorted) |-> sorted[i].eventPayload]

\* getEvents: the payloads of the stream's rows, ascending by sequence number.
GetEvents(rows, id) ==
    LET sorted == OrderBySeqAsc(StreamRows(rows, id))
    IN  [i \in 1..Len(sorted) |-> sorted[i].eventPayload]

RetryAlways(code, att) == code \in {"23505", "40001"}

\* The catch block of addEvent: retry on 23505 / 40001 while attempts remain.
Retryable(code, att) == code \in {"23505", "40001"} /\ att < maxRetries - 1

\* The server processes behind the load balancer.
Instances == {"A", "B"}

\* settings: {}
NoSettings == [k \in {} |-> "none"]

\* No getRoomState call has returned yet.
NoRoomState == [rid |-> "none", result |-> [pending |-> TRUE], tick |-> 0]

\* No listPublic call has returned yet.
NoPages == [first |-> <<>>, second |-> <<>>, limit |-> 0, tick |-> 0]

\* No getGameState call has returned yet.
NoGameState == [gid |-> "none", result |-> [pending |-> TRUE], from |-> "none", tick |-> 0]

(* ---- initial state: empty tables, the seeded puzzles, no connection ---- *)

Init ==
    /\ events = [tb \in {"game_events", "room_events"} |-> {}]
    /\ puzzles = [p \in ExistingPids |-> 0]
    /\ puzzleSolves = {}
    /\ pc = [t \in Tasks |-> "idle"]
    /\ req = [t \in Tasks |-> NoReq]
    /\ attempt = [t \in Tasks |-> 0]
    /\ sequenceNumber = [t \in Tasks |-> 0]
    /\ txRow = [t \in Tasks |-> {}]
    /\ thrown = [t \in Tasks |-> "none"]
    /\ rooms = [s \in Sockets |-> {}]
    /\ inbox = [s \in Sockets |-> <<>>]
    /\ errors = [s \in Sockets |-> {}]
    /\ synced = [s \in Sockets |->
                    [room |-> <<"none", "none">>, reply |-> <<>>, ok |-> TRUE, tick |-> 0]]
    /\ owed = [t \in Tasks |-> {}]
    /\ acks = [t \in Tasks |-> <<>>]
    /\ spc = [c \in SolveCalls |-> "idle"]
    /\ sreq = [c \in SolveCalls |-> NoSolveReq]
    /\ txSolve = [c \in SolveCalls |-> {}]
    /\ txIncr = [c \in SolveCalls |-> {}]
    /\ sError = [c \in SolveCalls |-> "none"]
    /\ gameState = NoGameState
    /\ snapshots = [g \in GameIds |-> {}]
    /\ roomState = NoRoomState
    /\ catalog = {}
    /\ pages = NoPages
    /\ incrementCalls = [p \in RequestPids |-> 0]
    /\ migrationRun = [p \in Runners |-> NoRun]
    /\ advisoryLock = 0
    /\ drizzle_migrations = <<>>
    /\ applied = <<>>
    /\ bus = [i \in Instances |-> <<>>]
    /\ delivered = [s \in Sockets |-> 0]

(* ---- addEvent, one attempt = one transaction ---- *)

\* The handler has built its row data and enters addEvent's loop (attempt 0).
BeginEvent(t, kind, id, pid, type, draft, body) ==
    /\ pc[t] = "idle"
    /\ pc' = [pc EXCEPT ![t] = "select"]
    /\ req' = [req EXCEPT ![t] = [kind |-> kind, id |-> id, pid |-> pid, type |-> type,
                                   draft |-> draft, body |-> body]]
    /\ attempt' = [attempt EXCEPT ![t] = 0]
    /\ UNCHANGED <<sequenceNumber, txRow, thrown, storeVars, sockVars, solveVars, readVars,
                   busVars>>

\* The same for an event without parameters.
Begin(t, kind, id, pid, type) == BeginEvent(t, kind, id, pid, type, NoBody, NoBody)

AcknowledgeTwice(t, kind, errs) ==
    IF kind \in SocketKinds
    THEN [acks EXCEPT ![t] = @ \o <<[afterError |-> <<kind, t>> \in errs[SenderOf(t)]],
                                    [afterError |-> <<kind, t>> \in errs[SenderOf(t)]]>>]
    ELSE acks

\* ack?.() at the end of a socket handler's try or catch block: one call,
\* made with or without an error frame for the request sent to the socket
\* before it.  A service method has no ack.
Acknowledge(t, kind, errs) ==
    IF kind \in SocketKinds
    THEN [acks EXCEPT ![t] = Append(@, [afterError |-> <<kind, t>> \in errs[SenderOf(t)]])]
    ELSE acks

ThrowToRoom(t) ==
    /\ pc' = [pc EXCEPT ![t] = "failed"]
    /\ txRow' = [txRow EXCEPT ![t] = {}]
    /\ attempt' = [attempt EXCEPT ![t] = 0]
    /\ sequenceNumber' = [sequenceNumber EXCEPT ![t] = 0]
    /\ errors' = [s \in Sockets |->
                     IF /\ req[t].kind \in SocketKinds
                        /\ RoomName(req[t].kind, req[t].id) \in rooms[s]
                     THEN errors[s] \cup {<<req[t].kind, t>>} ELSE errors[s]]
    /\ acks' = Acknowledge(t, req[t].kind, errors')

\* The error leaves addEvent.  SocketManager's handlers catch it and send an
\* error frame to the sending socket; the services let it propagate.
Throw(t) ==
    /\ pc' = [pc EXCEPT ![t] = "failed"]
    /\ txRow' = [txRow EXCEPT ![t] = {}]
    /\ attempt' = [attempt EXCEPT ![t] = 0]
    /\ sequenceNumber' = [sequenceNumber EXCEPT ![t] = 0]
    /\ errors' = IF req[t].kind \in SocketKinds
                 THEN [errors EXCEPT ![SenderOf(t)] = @ \cup {<<req[t].kind, t>>}]
                 ELSE errors
    /\ acks' = Acknowledge(t, req[t].kind, errors')

\* tx.select(...).orderBy(desc(sequenceNumber)).limit(1); sequenceNumber := max + 1
TxSelect(t) ==
    /\ pc[t] = "select"
    /\ sequenceNumber' = [sequenceNumber EXCEPT ![t] =
                             NextSequenceNumber(events[TableOf(req[t].kind)], req[t].id)]
    /\ pc' = [pc EXCEPT ![t] = "insert"]
    /\ UNCHANGED <<req, attempt, txRow, thrown, storeVars, sockVars, solveVars, readVars,
                   busVars>>

RowOf(t) == [id |-> req[t].id, sequenceNumber |-> sequenceNumber[t], eventPayload |-> PayloadOf(t)]

\* Another open transaction holds an uncommitted row with this row's key.
WaitsOnUncommitted(t) ==
    \E o \in Tasks \ {t} :
        /\ TableOf(req[o].kind) = TableOf(req[t].kind)
        /\ UniqueViolation(txRow[o], RowOf(t))

TxInsertAutoCommit(t) ==
    /\ pc[t] = "insert"
    /\ \/ /\ ~UniqueViolation(events[TableOf(req[t].kind)], RowOf(t))
          /\ events' = [events EXCEPT ![TableOf(req[t].kind)] = InsertRow(@, RowOf(t))]
          /\ txRow' = [txRow EXCEPT ![t] = {RowOf(t)}]
          /\ pc' = [pc EXCEPT ![t] = "commit"]
          /\ UNCHANGED <<attempt, sequenceNumber, errors, acks, thrown>>
       \/ /\ UniqueViolation(events[TableOf(req[t].kind)], RowOf(t))
          /\ Retryable("23505", attempt[t])
          /\ attempt' = [attempt EXCEPT ![t] = @ + 1]
          /\ pc' = [pc EXCEPT ![t] = "select"]
          /\ UNCHANGED <<events, txRow, sequenceNumber, errors, acks, thrown>>
       \/ /\ UniqueViolation(events[TableOf(req[t].kind)], RowOf(t))
          /\ ~Retryable("23505", attempt[t])
          /\ Throw(t)
          /\ thrown' = [thrown EXCEPT ![t] = "23505"]
          /\ UNCHANGED events
    /\ UNCHANGED <<req, puzzles, puzzleSolves, rooms, inbox, synced, owed, solveVars,
                   readVars, busVars>>

\* tx.insert(...).values({...data, sequenceNumber}).returning()
TxInsert(t) ==
    /\ pc[t] = "insert"
    /\ ~WaitsOnUncommitted(t)
    /\ \/ /\ ~UniqueViolation(events[TableOf(req[t].kind)], RowOf(t))
          /\ txRow' = [txRow EXCEPT ![t] = {RowOf(t)}]
          /\ pc' = [pc EXCEPT ![t] = "commit"]
          /\ UNCHANGED <<attempt, sequenceNumber, errors, acks, thrown>>
       \/ /\ UniqueViolation(events[TableOf(req[t].kind)], RowOf(t))
          /\ Retryable("23505", attempt[t])
          /\ attempt' = [attempt EXCEPT ![t] = @ + 1]
          /\ pc' = [pc EXCEPT ![t] = "select"]
          /\ UNCHANGED <<txRow, sequenceNumber, errors, acks, thrown>>
       \/ /\ UniqueViolation(events[TableOf(req[t].kind)], RowOf(t))
          /\ ~Retryable("23505", attempt[t])
          /\ Throw(t)
          /\ thrown' = [thrown EXCEPT ![t] = "23505"]
    /\ UNCHANGED <<req, storeVars, rooms, inbox, synced, owed, solveVars, readVars, busVars>>

\* The transaction commits and addEvent returns the row.  A socket handler
\* goes on to its emit; a service method returns.
TxCommit(t) ==
    /\ pc[t] = "commit"
    /\ events' = [events EXCEPT ![TableOf(req[t].kind)] =
                     InsertRow(@, CHOOSE r \in txRow[t] : TRUE)]
    /\ txRow' = [txRow EXCEPT ![t] = {}]
    /\ pc' = [pc EXCEPT ![t] = IF req[t].kind \in SocketKinds THEN "emit" ELSE "done"]
    /\ owed' = [owed EXCEPT ![t] =
                   {s \in Sockets : RoomName(req[t].kind, req[t].id) \in rooms[s]}]
    /\ attempt' = [attempt EXCEPT ![t] = 0]
    /\ sequenceNumber' = [sequenceNumber EXCEPT ![t] = 0]
    /\ UNCHANGED <<puzzles, puzzleSolves, req, thrown, rooms, inbox, errors, synced, acks,
                   solveVars, readVars, busVars>>

StoreFailsRetried(t) ==
    /\ pc[t] \in {"select", "insert", "commit"}
    /\ pc' = [pc EXCEPT ![t] = "select"]
    /\ txRow' = [txRow EXCEPT ![t] = {}]
    /\ attempt' = [attempt EXCEPT ![t] = IF @ < maxRetries - 1 THEN @ + 1 ELSE @]
    /\ thrown' = [thrown EXCEPT ![t] = "StoreError"]
    /\ UNCHANGED <<sequenceNumber, errors, req, storeVars, rooms, inbox, synced, acks, owed,
                   solveVars, readVars, busVars>>

\* A statement of the transaction fails with a store or transport error
\* (neither 23505 nor 40001): the transaction rolls back, nothing is retried.
StoreFails(t) ==
    /\ pc[t] \in {"select", "insert", "commit"}
    /\ Throw(t)
    /\ thrown' = [thrown EXCEPT ![t] = "StoreError"]
    /\ UNCHANGED <<req, storeVars, rooms, inbox, synced, owed, solveVars, readVars, busVars>>

(* ---- SocketManager ---- *)

Range(f) == {f[i] : i \in DOMAIN f}

EmitBeforePersist(t) ==
    /\ pc[t] = "commit"
    /\ req[t].kind \in SocketKinds
    /\ \A s \in Sockets : PayloadOf(t) \notin Range(inbox[s])
    /\ inbox' = [s \in Sockets |->
                    IF RoomName(req[t].kind, req[t].id) \in rooms[s]
                    THEN Append(inbox[s], PayloadOf(t)) ELSE inbox[s]]
    /\ UNCHANGED <<pc, req, attempt, sequenceNumber, txRow, thrown, storeVars, rooms,
                   errors, synced, acks, owed, solveVars, readVars, busVars>>

\* void this.io.to(`game-${gid}`).emit('game_event', gameEvent), after the
\* awaited addEvent has returned.
Emit(t) ==
    /\ pc[t] = "emit"
    /\ inbox' = [s \in Sockets |->
                    IF RoomName(req[t].kind, req[t].id) \in rooms[s]
                    THEN Append(inbox[s], PayloadOf(t)) ELSE inbox[s]]
    /\ pc' = [pc EXCEPT ![t] = "done"]
    /\ acks' = Acknowledge(t, req[t].kind, errors)
    /\ UNCHANGED <<req, attempt, sequenceNumber, txRow, thrown, storeVars, rooms, errors,
                   synced, owed, solveVars, readVars, busVars>>

\* socket.on('game_event'): addGameEvent(message.gid, message.event)
SocketGameEvent(t) ==
    \E gid \in GameIds, type \in GameEventTypes : Begin(t, "game_event", gid, "none", type)

\* socket.on('room_event'): addRoomEvent(message.rid, message.event)
SocketRoomEvent(t) ==
    \E rid \in RoomIds, type \in RoomEventTypes : Begin(t, "room_event", rid, "none", type)

\* socket.on('join_game') / socket.on('join_room')
Join(s) ==
    /\ \E room \in AllRooms \ rooms[s] : rooms' = [rooms EXCEPT ![s] = @ \cup {room}]
    /\ UNCHANGED <<inbox, errors, synced, acks, owed, storeVars, taskVars, solveVars, readVars,
                   busVars>>

\* socket.on('leave_game') / socket.on('leave_room')
Leave(s) ==
    /\ \E room \in rooms[s] :
          /\ rooms' = [rooms EXCEPT ![s] = @ \ {room}]
          /\ owed' = [t \in Tasks |->
                         IF RoomName(req[t].kind, req[t].id) = room
                         THEN owed[t] \ {s} ELSE owed[t]]
    /\ UNCHANGED <<inbox, errors, synced, acks, storeVars, taskVars, solveVars, readVars, busVars>>

\* The table a socket.io room's stream is stored in.
TableOfRoom(room) == IF room[1] = "game" THEN "game_events" ELSE "room_events"

\* socket.on('sync_all_game_events') / socket.on('sync_all_room_events'):
\* ack(await getGameEvents(gid)); when the read throws, an error frame to the
\* requesting socket and ack([]).
Sync(s) ==
    /\ \E room \in AllRooms :
          \/ /\ synced' = [synced EXCEPT ![s] =
                              [room |-> room,
                               reply |-> GetEvents(events[TableOfRoom(room)], room[2]),
                               ok |-> TRUE,
                               tick |-> 1 - @.tick]]
             /\ UNCHANGED errors
          \/ /\ synced' = [synced EXCEPT ![s] =
                              [room |-> room, reply |-> <<>>, ok |-> FALSE,
                               tick |-> 1 - @.tick]]
             /\ errors' = [errors EXCEPT ![s] = @ \cup {<<"sync", 0>>}]
    /\ UNCHANGED <<rooms, inbox, owed, acks, storeVars, taskVars, solveVars, readVars, busVars>>

(* ---- GameService / RoomService ---- *)

\* The solution of the stored puzzles: letters, with '.' for a black square.
PuzzleSolution == <<<<"A", "B">>, <<".", "C">>>>

\* GameService.initializeGrid: one cell per square of the solution, empty
\* but for black, which is set on the black squares (FALSE: not set).
initializeGrid(solution) ==
    [r \in 1..Len(solution) |->
        [c \in 1..(IF Len(solution) > 0 THEN Len(solution[1]) ELSE 0) |->
            [black |-> solution[r][c] = "."]]]

\* The params of the create event built by createGame.
CreateParams(pid) ==
    [pid |-> pid,
     game |-> [grid |-> initializeGrid(PuzzleSolution), solution |-> PuzzleSolution]]

\* Readings of Date.now() in createGame.
CreateTimes == {1000}

CreateGameUnchecked(t) ==
    \E gid \in GameIds, pid \in {"p1", "p0"}, now \in CreateTimes :
        BeginEvent(t, "createGame", gid, pid, "create", NoBody,
                   [timestamp |-> now, params |-> CreateParams(pid)])

\* GameService.createGame: findByPid, NotFoundError when the puzzle is
\* missing, otherwise addEvent of the create event.
CreateGame(t) ==
    \E gid \in GameIds, pid \in {"p1", "p0"}, now \in CreateTimes :
        \/ /\ pid \in DOMAIN puzzles
           /\ BeginEvent(t, "createGame", gid, pid, "create", NoBody,
                         [timestamp |-> now, params |-> CreateParams(pid)])
        \/ /\ pid \notin DOMAIN puzzles
           /\ pc[t] = "idle"
           /\ pc' = [pc EXCEPT ![t] = "failed"]
           /\ thrown' = [thrown EXCEPT ![t] = "NotFoundError"]
           /\ req' = [req EXCEPT ![t] =
                         [kind |-> "createGame", id |-> gid, pid |-> pid, type |-> "create",
                          draft |-> NoBody, body |-> NoBody]]
           /\ UNCHANGED <<attempt, sequenceNumber, txRow, storeVars, sockVars, solveVars,
                          readVars, busVars>>

\* GameService.addGameEvent
ServiceAddGameEvent(t) ==
    \E gid \in GameIds, type \in GameEventTypes : Begin(t, "addGameEvent", gid, "none", type)

\* RoomService.createRoom
CreateRoom(t) ==
    \E rid \in RoomIds :
        BeginEvent(t, "createRoom", rid, "none", "room_settings_update", NoBody,
                   [params |-> [settings |-> NoSettings]])

\* RoomService.addRoomEvent
ServiceAddRoomEvent(t) ==
    \E rid \in RoomIds, type \in RoomEventTypes : Begin(t, "addRoomEvent", rid, "none", type)

AddEventStep(t) == TxSelect(t) \/ TxInsert(t) \/ TxCommit(t) \/ StoreFails(t)

(* ---- the stream hub: handlers of one instance and its sockets ---- *)

Next ==
    \/ \E t \in Handlers :
          \/ SocketGameEvent(t) \/ SocketRoomEvent(t)
          \/ CreateGame(t) \/ ServiceAddGameEvent(t)
          \/ CreateRoom(t) \/ ServiceAddRoomEvent(t)
          \/ AddEventStep(t)
          \/ Emit(t)
    \/ \E s \in Sockets : Join(s) \/ Leave(s)

Spec == Init /\ [][Next]_vars

(* ---- the event store under concurrent writers ---- *)

NextStore ==
    \E t \in Writers :
        \/ ServiceAddGameEvent(t) \/ ServiceAddRoomEvent(t)
        \/ AddEventStep(t)

SpecStore == Init /\ [][NextStore]_vars

(* ---- reconnecting clients: appends and sync requests ---- *)

NextSync ==
    \/ \E t \in Handlers :
          \/ ServiceAddGameEvent(t) \/ ServiceAddRoomEvent(t)
          \/ AddEventStep(t)
    \/ \E s \in Sockets : Sync(s)

SpecSync == Init /\ [][NextSync]_vars

(* ---- SolveService.recordSolve ---- *)

FindByPidOnly(rows, pid, gid) == {r \in rows : r.pid = pid /\ r.gid = pid}

\* PuzzleSolveRepository.findByPidAndGid: WHERE pid = ? AND gid = ? LIMIT 1
\* (the empty set is null).
FindByPidAndGid(rows, pid, gid) == {r \in rows : r.pid = pid /\ r.gid = gid}

\* The row recordSolve inserts; its id is the call's randomUUID().
SolveRowOf(c) ==
    [id |-> c, pid |-> sreq[c].pid, gid |-> sreq[c].gid,
     timeTakenSeconds |-> sreq[c].time_to_solve,
     revealedSquaresCount |-> sreq[c].revealedSquaresCount,
     checkedSquaresCount |-> sreq[c].checkedSquaresCount]

\* puzzle_solves declares a primary key on id and no other unique index.
SolvePrimaryKeyViolation(rows, row) == \E r \in rows : r.id = row.id

AutoCommitted(rows, pending) == rows \cup pending

\* What a rolled-back transaction leaves of its inserts in a table: nothing.
RolledBack(rows, pending) == rows

\* The cells an event's params touch: params.scope ?? [{row, col}].
ScopeOf(params) ==
    IF "scope" \in DOMAIN params THEN params.scope
    ELSE <<[row |-> params.row, col |-> params.col]>>

\* The Set of `${cell.row},${cell.col}` keys after the events of one type:
\* every cell of every such event that has params is added.
RECURSIVE SquaresOf(_, _)
SquaresOf(evs, type) ==
    IF evs = <<>> THEN {}
    ELSE LET event == evs[Len(evs)]
             before == SquaresOf(SubSeq(evs, 1, Len(evs) - 1), type)
         IN  IF event.type = type /\ "params" \in DOMAIN event.body
             THEN before \cup {<<cell.row, cell.col>> :
                                  cell \in Range(ScopeOf(event.body.params))}
             ELSE before

RECURSIVE EventsOfType(_, _)
EventsOfType(evs, type) ==
    IF evs = <<>> THEN {}
    ELSE EventsOfType(Tail(evs), type)
            \cup (IF Head(evs).type = type THEN {Len(evs)} ELSE {})

CountEventsNotSquares(evs) ==
    [revealedSquaresCount |-> Cardinality(EventsOfType(evs, "cell_reveal")),
     checkedSquaresCount |-> Cardinality(EventsOfType(evs, "cell_check"))]

\* SolveService.calculateSquareCounts: the sizes of the two sets.
calculateSquareCounts(evs) ==
    [revealedSquaresCount |-> Cardinality(SquaresOf(evs, "cell_reveal")),
     checkedSquaresCount |-> Cardinality(SquaresOf(evs, "cell_check"))]

\* recordSolve(pid, {gid, time_to_solve}) is called: getEvents(gid) and
\* calculateSquareCounts run, then the READ COMMITTED transaction is opened.
RecordSolveFor(c, pid, gid, time) ==
    /\ spc[c] = "idle"
    /\ LET counts == calculateSquareCounts(GetEvents(events["game_events"], gid))
       IN  sreq' = [sreq EXCEPT ![c] =
                       [pid |-> pid, gid |-> gid, time_to_solve |-> time,
                        revealedSquaresCount |-> counts.revealedSquaresCount,
                        checkedSquaresCount |-> counts.checkedSquaresCount]]
    /\ spc' = [spc EXCEPT ![c] = "find"]
    /\ UNCHANGED <<txSolve, txIncr, sError, storeVars, taskVars, sockVars, readVars,
                   busVars>>

\* A recordSolve call with any request.
RecordSolve(c) ==
    \E pid \in RequestPids, gid \in GameIds, time \in TimesToSolve :
        RecordSolveFor(c, pid, gid, time)

TxFindIgnored(c) ==
    /\ spc[c] = "find"
    /\ spc' = [spc EXCEPT ![c] = "create"]
    /\ UNCHANGED <<sreq, txSolve, txIncr, sError, storeVars, taskVars, sockVars, readVars,
                   busVars>>

\* existing = findByPidAndGid(pid, gid, tx); if (existing) return {}
TxFindExisting(c) ==
    /\ spc[c] = "find"
    /\ \/ /\ FindByPidAndGid(puzzleSolves, sreq[c].pid, sreq[c].gid) # {}
          /\ spc' = [spc EXCEPT ![c] = "done"]
       \/ /\ FindByPidAndGid(puzzleSolves, sreq[c].pid, sreq[c].gid) = {}
          /\ spc' = [spc EXCEPT ![c] = "create"]
    /\ UNCHANGED <<sreq, txSolve, txIncr, sError, storeVars, taskVars, sockVars, readVars,
                   busVars>>

\* solveRepo.create({id, pid, gid, ...}, tx)
TxCreateSolve(c) ==
    /\ spc[c] = "create"
    /\ ~SolvePrimaryKeyViolation(puzzleSolves, SolveRowOf(c))
    /\ txSolve' = [txSolve EXCEPT ![c] = {SolveRowOf(c)}]
    /\ spc' = [spc EXCEPT ![c] = "increment"]
    /\ UNCHANGED <<sreq, txIncr, sError, storeVars, taskVars, sockVars, readVars, busVars>>

\* puzzleRepo.incrementSolveCount(pid, tx): UPDATE puzzles SET times_solved =
\* times_solved + 1 WHERE pid = ?.  The update locks the puzzle's row until
\* the transaction ends, waiting for a transaction that holds it; it matches
\* no row when the puzzle does not exist.
TxIncrementSolveCount(c) ==
    /\ spc[c] = "increment"
    /\ \A o \in SolveCalls \ {c} : sreq[c].pid \notin txIncr[o]
    /\ txIncr' = [txIncr EXCEPT ![c] = {sreq[c].pid} \cap DOMAIN puzzles]
    /\ spc' = [spc EXCEPT ![c] = "commit"]
    /\ UNCHANGED <<sreq, txSolve, sError, storeVars, taskVars, sockVars, readVars, busVars>>

\* The transaction commits: the inserted row and the incremented counter
\* become visible together; recordSolve returns {}.
TxCommitSolve(c) ==
    /\ spc[c] = "commit"
    /\ puzzleSolves' = puzzleSolves \cup txSolve[c]
    /\ puzzles' = [p \in DOMAIN puzzles |->
                      IF p \in txIncr[c] THEN puzzles[p] + 1 ELSE puzzles[p]]
    /\ incrementCalls' = [incrementCalls EXCEPT ![sreq[c].pid] = @ + 1]
    /\ txSolve' = [txSolve EXCEPT ![c] = {}]
    /\ txIncr' = [txIncr EXCEPT ![c] = {}]
    /\ spc' = [spc EXCEPT ![c] = "done"]
    /\ UNCHANGED <<sreq, sError, events, taskVars, sockVars, gameState, snapshots, roomState,
                   catalog, pages, migVars, busVars>>

\* A statement of the transaction fails with a store error (not 23505): the
\* transaction rolls back and recordSolve rethrows.
SolveStoreFails(c) ==
    /\ spc[c] \in {"find", "create", "increment", "commit"}
    /\ puzzleSolves' = RolledBack(puzzleSolves, txSolve[c])
    /\ txSolve' = [txSolve EXCEPT ![c] = {}]
    /\ txIncr' = [txIncr EXCEPT ![c] = {}]
    /\ sError' = [sError EXCEPT ![c] = spc[c]]
    /\ spc' = [spc EXCEPT ![c] = "failed"]
    /\ UNCHANGED <<sreq, events, puzzles, taskVars, sockVars, readVars, busVars>>

SolveStep(c) ==
    TxFindExisting(c) \/ TxCreateSolve(c) \/ TxIncrementSolveCount(c) \/ TxCommitSolve(c)

\* Concurrent recordSolve calls over a store that may fail.
NextSolve == \E c \in SolveCalls : RecordSolve(c) \/ SolveStep(c) \/ SolveStoreFails(c)

SpecSolve == Init /\ [][NextSolve]_vars

\* recordSolve calls made one after another over an available store.
NextSolveSeq ==
    \E c \in SolveCalls :
        \/ (\A o \in SolveCalls : spc[o] \in {"idle", "done"}) /\ RecordSolve(c)
        \/ SolveStep(c)

SpecSolveSeq == Init /\ [][NextSolveSeq]_vars

(* ---- scenario "concurrent appenders": one event each, one stream ---- *)

BurstStream == "g2"

\* The K tasks have all called addEvent for their cell_fill and none has run
\* a statement yet.
InitBurst ==
    /\ events = [tb \in {"game_events", "room_events"} |-> {}]
    /\ puzzles = [p \in ExistingPids |-> 0]
    /\ puzzleSolves = {}
    /\ pc = [t \in Tasks |-> IF t <= BurstTasks THEN "select" ELSE "idle"]
    /\ req = [t \in Tasks |->
                 IF t <= BurstTasks
                 THEN [kind |-> "addGameEvent", id |-> BurstStream, pid |-> "none",
                       type |-> "cell_fill", draft |-> NoBody, body |-> NoBody]
                 ELSE NoReq]
    /\ attempt = [t \in Tasks |-> 0]
    /\ sequenceNumber = [t \in Tasks |-> 0]
    /\ txRow = [t \in Tasks |-> {}]
    /\ thrown = [t \in Tasks |-> "none"]
    /\ rooms = [s \in Sockets |-> {}]
    /\ inbox = [s \in Sockets |-> <<>>]
    /\ errors = [s \in Sockets |-> {}]
    /\ synced = [s \in Sockets |->
                    [room |-> <<"none", "none">>, reply |-> <<>>, ok |-> TRUE, tick |-> 0]]
    /\ owed = [t \in Tasks |-> {}]
    /\ acks = [t \in Tasks |-> <<>>]
    /\ spc = [c \in SolveCalls |-> "idle"]
    /\ sreq = [c \in SolveCalls |-> NoSolveReq]
    /\ txSolve = [c \in SolveCalls |-> {}]
    /\ txIncr = [c \in SolveCalls |-> {}]
    /\ sError = [c \in SolveCalls |-> "none"]
    /\ gameState = NoGameState
    /\ snapshots = [g \in GameIds |-> {}]
    /\ roomState = NoRoomState
    /\ catalog = {}
    /\ pages = NoPages
    /\ incrementCalls = [p \in RequestPids |-> 0]
    /\ migrationRun = [p \in Runners |-> NoRun]
    /\ advisoryLock = 0
    /\ drizzle_migrations = <<>>
    /\ applied = <<>>
    /\ bus = [i \in Instances |-> <<>>]
    /\ delivered = [s \in Sockets |-> 0]

NextBurst == \E t \in 1..BurstTasks : TxSelect(t) \/ TxInsert(t) \/ TxCommit(t)

SpecBurst == InitBurst /\ [][NextBurst]_vars

(* ---- assignTimestamp over client event drafts ---- *)

\* A JSON value of a draft is one of [num |-> n], [str |-> s], [null |-> TRUE],
\* [arr |-> <<v1, ..., vn>>] and [obj |-> (key -> value)].
IsObj(v) == "obj" \in DOMAIN v
IsArr(v) == "arr" \in DOMAIN v

\* event['.sv'] === 'timestamp' (undefined on an array)
HasSvTimestamp(v) ==
    IsObj(v) /\ ".sv" \in DOMAIN v.obj /\ v.obj[".sv"] = [str |-> "timestamp"]

\* Readings of Date.now() while a handler runs.
ServerTimes == {1000, 1001}

RECURSIVE AssignTimestampShallow(_, _)
AssignTimestampShallow(event, now) ==
    IF HasSvTimestamp(event) THEN [num |-> now]
    ELSE IF IsObj(event)
         THEN [obj |-> [k \in DOMAIN event.obj |-> AssignTimestampShallow(event.obj[k], now)]]
         ELSE event

\* assignTimestamp: an object (or array) is rebuilt key by key from the
\* results for its values, unless its '.sv' is 'timestamp', when it becomes
\* Date.now(); anything else is returned as it is.
RECURSIVE assignTimestamp(_, _)
assignTimestamp(event, now) ==
    IF HasSvTimestamp(event) THEN [num |-> now]
    ELSE IF IsObj(event)
         THEN [obj |-> [k \in DOMAIN event.obj |-> assignTimestamp(event.obj[k], now)]]
         ELSE IF IsArr(event)
              THEN [arr |-> [i \in DOMAIN event.arr |-> assignTimestamp(event.arr[i], now)]]
              ELSE event

\* event.constructor() is reached for an object that carries a key named
\* 'constructor' of its own: the key's JSON value is not callable, the call
\* throws a TypeError.
RECURSIVE ConstructorThrows(_)
ConstructorThrows(event) ==
    IF HasSvTimestamp(event) THEN FALSE
    ELSE IF IsObj(event)
         THEN \/ "constructor" \in DOMAIN event.obj
              \/ \E k \in DOMAIN event.obj : ConstructorThrows(event.obj[k])
         ELSE IF IsArr(event)
              THEN \E i \in DOMAIN event.arr : ConstructorThrows(event.arr[i])
              ELSE FALSE

\* The sentinel of the legacy client contract, and objects that resemble it.
Sentinel == [obj |-> (".sv" :> [str |-> "timestamp"])]
SentinelAndMore == [obj |-> (".sv" :> [str |-> "timestamp"]) @@ ("id" :> [num |-> 7])]
OtherSv == [obj |-> (".sv" :> [str |-> "increment"])]

DraftLeaves == {[num |-> 7], [str |-> "timestamp"], [null |-> TRUE],
                Sentinel, SentinelAndMore, OtherSv}

\* The values a draft carries as its params: leaves, arrays and objects of
\* leaves, and a sentinel two levels down inside an array.
DraftParams ==
    DraftLeaves
    \cup {[arr |-> <<a, b>>] : a, b \in {[num |-> 7], Sentinel, OtherSv}}
    \cup {[obj |-> [row |-> a, at |-> b]] : a, b \in {[num |-> 7], Sentinel, [null |-> TRUE]}}
    \cup {[obj |-> [scope |-> [arr |-> <<[obj |-> [at |-> a]], [arr |-> <<a>>]>>]]] :
             a \in {Sentinel, SentinelAndMore, [str |-> "timestamp"]}}
    \cup {[arr |-> <<>>], [obj |-> <<>>], [obj |-> [constructor |-> [num |-> 7]]]}

\* The drafts clients send: objects with a type, a timestamp (a number or the
\* sentinel) and params.
Drafts ==
    {[obj |-> [type |-> [str |-> ty], timestamp |-> ts, params |-> p]] :
        ty \in {"cell_fill"}, ts \in {[num |-> 5], Sentinel}, p \in DraftParams}

\* The connection whose messages are followed one at a time.
StampTask == 1

\* SocketManager.addGameEvent / addRoomEvent for a draft: assignTimestamp
\* first (a throw goes to the handler's catch: error frame to the sender),
\* then addEvent with eventType = gameEvent.type and the stamped event as
\* payload.
AddDraftEvent(t, kind, id, draft) ==
    /\ pc[t] = "idle"
    /\ \E now \in ServerTimes :
        \/ /\ ~ConstructorThrows(draft)
           /\ BeginEvent(t, kind, id, "none", assignTimestamp(draft, now).obj.type.str,
                         draft, assignTimestamp(draft, now))
        \/ /\ ConstructorThrows(draft)
           /\ pc[t] = "idle"
           /\ pc' = [pc EXCEPT ![t] = "failed"]
           /\ thrown' = [thrown EXCEPT ![t] = "TypeError"]
           /\ req' = [req EXCEPT ![t] = [kind |-> kind, id |-> id, pid |-> "none",
                                         type |-> "none", draft |-> draft, body |-> NoBody]]
           /\ errors' = [errors EXCEPT ![SenderOf(t)] = @ \cup {<<kind, t>>}]
           /\ acks' = Acknowledge(t, kind, errors')
           /\ UNCHANGED <<attempt, sequenceNumber, txRow, storeVars, rooms, inbox, synced,
                          owed, solveVars, readVars, busVars>>

\* socket.on('game_event') with the message's event
GameEventMessage(t) ==
    /\ pc[t] = "idle"
    /\ \E gid \in GameIds, draft \in Drafts : AddDraftEvent(t, "game_event", gid, draft)

\* socket.on('room_event') with the message's event
RoomEventMessage(t) ==
    /\ pc[t] = "idle"
    /\ \E rid \in RoomIds, draft \in Drafts : AddDraftEvent(t, "room_event", rid, draft)

\* One client joins streams and sends a message with a draft.
NextStamp ==
    \/ GameEventMessage(StampTask) \/ RoomEventMessage(StampTask)
    \/ AddEventStep(StampTask)
    \/ Emit(StampTask)
    \/ Join(SenderOf(StampTask))

SpecStamp == Init /\ [][NextStamp]_vars

(* ---- a game's reveals and checks, then its solve ---- *)

\* The number of cell events the game receives.
NumCellEvents == 3
CellWriters == 1..NumCellEvents

\* The game that is played and solved.
CountedGame == "g1"

\* params of cell events: a single cell, or a cell with the scope of a word
\* (that repeats the cell and names another, or is empty).
CellParams ==
    {[row |-> 0, col |-> 0],
     [row |-> 0, col |-> 0, scope |-> <<[row |-> 0, col |-> 0], [row |-> 0, col |-> 1]>>],
     [row |-> 1, col |-> 1, scope |-> <<>>]}

CellEvents ==
    {[type |-> ty, body |-> [params |-> p]] :
        ty \in {"cell_reveal", "cell_check"}, p \in CellParams}
    \cup {[type |-> "cell_fill", body |-> [params |-> [row |-> 1, col |-> 0]]],
          [type |-> "cell_reveal", body |-> NoBody]}

\* GameService.addGameEvent(gid, event) for a cell event, the calls of the
\* game made one after another.
AppendCellEvent(t) ==
    /\ pc[t] = "idle"
    /\ IF t = 1 THEN TRUE ELSE pc[t - 1] = "done"
    /\ \E e \in CellEvents :
          BeginEvent(t, "addGameEvent", CountedGame, "none", e.type, NoBody, e.body)

\* The game's puzzle is reported solved, once.
RecordCountedSolve(c) ==
    /\ \A o \in SolveCalls : spc[o] = "idle"
    /\ \E time \in TimesToSolve : RecordSolveFor(c, "p1", CountedGame, time)

NextCounts ==
    \/ \E t \in CellWriters : AppendCellEvent(t) \/ TxSelect(t) \/ TxInsert(t) \/ TxCommit(t)
    \/ \E c \in SolveCalls : RecordCountedSolve(c) \/ SolveStep(c)

SpecCounts == Init /\ [][NextCounts]_vars

(* ---- two instances joined by the Redis adapter ---- *)

\* The instance a socket is connected to; a handler runs where its sender is.
InstanceOf(s) == IF s = 1 THEN "B" ELSE "A"

\* The handlers of instance B and the sockets of instance A.
PublishingHandlers == {t \in Writers : InstanceOf(SenderOf(t)) = "B"}
RemoteSockets == {s \in Sockets : InstanceOf(s) = "A"}

\* io.to(room).emit(...) with the adapter configured: the frame goes to the
\* room's sockets of the handler's own instance and is published for every
\* other instance.
EmitViaAdapter(t) ==
    /\ pc[t] = "emit"
    /\ inbox' = [s \in Sockets |->
                    IF /\ InstanceOf(s) = InstanceOf(SenderOf(t))
                       /\ RoomName(req[t].kind, req[t].id) \in rooms[s]
                    THEN Append(inbox[s], PayloadOf(t)) ELSE inbox[s]]
    /\ bus' = [i \in Instances |->
                  IF i # InstanceOf(SenderOf(t))
                  THEN Append(bus[i], [room |-> RoomName(req[t].kind, req[t].id),
                                       frame |-> PayloadOf(t)])
                  ELSE bus[i]]
    /\ pc' = [pc EXCEPT ![t] = "done"]
    /\ acks' = Acknowledge(t, req[t].kind, errors)
    /\ UNCHANGED <<req, attempt, sequenceNumber, txRow, thrown, storeVars, rooms, errors,
                   synced, owed, solveVars, readVars, delivered>>

\* An instance receives the oldest message published for it and pushes the
\* frame to its sockets in the room: the bus keeps the order of publication
\* and delivers each message once.
BusReceive(i) ==
    /\ bus[i] # <<>>
    /\ inbox' = [s \in Sockets |->
                    IF InstanceOf(s) = i /\ Head(bus[i]).room \in rooms[s]
                    THEN Append(inbox[s], Head(bus[i]).frame) ELSE inbox[s]]
    /\ bus' = [bus EXCEPT ![i] = Tail(@)]
    /\ UNCHANGED <<rooms, errors, synced, acks, owed, storeVars, taskVars, solveVars, readVars,
                   delivered>>

\* Clients of instance B send game events, clients of instance A subscribe.
NextBus ==
    \/ \E t \in PublishingHandlers :
          \/ SocketGameEvent(t)
          \/ TxSelect(t) \/ TxInsert(t) \/ TxCommit(t)
          \/ EmitViaAdapter(t)
    \/ \E i \in Instances : BusReceive(i)
    \/ \E s \in RemoteSockets : Join(s)

SpecBus == Init /\ [][NextBus]_vars

(* ---- slow subscribers ---- *)

\* The frames pushed to a socket that its client has not taken yet: what the
\* realtime library holds for the connection.
OutboundQueue(s) == SubSeq(inbox[s], delivered[s] + 1, Len(inbox[s]))

\* The client of a socket takes the oldest frame waiting for it.
ClientReceives(s) ==
    /\ delivered[s] < Len(inbox[s])
    /\ delivered' = [delivered EXCEPT ![s] = @ + 1]
    /\ UNCHANGED <<bus, sockVars, storeVars, taskVars, solveVars, readVars>>

\* Game events fanned out to subscribers that read at their own pace.
NextQueue ==
    \/ \E t \in Handlers :
          \/ SocketGameEvent(t)
          \/ TxSelect(t) \/ TxInsert(t) \/ TxCommit(t)
          \/ Emit(t)
    \/ \E s \in Sockets : Join(s) \/ ClientReceives(s)

SpecQueue == Init /\ [][NextQueue]_vars

(* ---- requests that fail ---- *)

\* Clients join streams; one of them sends an event and asks for syncs over a
\* store that may fail.
NextErr ==
    \/ SocketGameEvent(StampTask) \/ SocketRoomEvent(StampTask)
    \/ AddEventStep(StampTask)
    \/ Emit(StampTask)
    \/ Sync(SenderOf(StampTask))
    \/ \E s \in Sockets : Join(s)

SpecErr == Init /\ [][NextErr]_vars

(* ---- GameService.getGameState: the projection of a game stream ---- *)

\* events.find((e) => e.type === 'create'): the positions of create events.
CreatePositions(evs) == {i \in 1..Len(evs) : evs[i].type = "create"}

\* The state reconstructGameState starts from.
InitialGameState(gid, createEvent) ==
    [gid |-> gid,
     pid |-> createEvent.body.params.pid,
     game |-> IF "game" \in DOMAIN createEvent.body.params
              THEN createEvent.body.params.game
              ELSE [undefined |-> TRUE],
     solved |-> FALSE,
     clock |-> [lastUpdated |-> IF "timestamp" \in DOMAIN createEvent.body
                                THEN createEvent.body.timestamp
                                ELSE [undefined |-> TRUE],
               totalTime |-> 0, trueTotalTime |-> 0, paused |-> TRUE],
     chat |-> [messages |-> <<>>]]

\* One round of the loop over the events: puzzle_solved, chat_message and
\* clock_update change the state, any other event leaves it.
ApplyEvent(state, event) ==
    IF event.type = "puzzle_solved"
    THEN [state EXCEPT !.solved = TRUE]
    ELSE IF event.type = "chat_message" /\ "params" \in DOMAIN event.body
    THEN [state EXCEPT !.chat.messages =
             Append(@, [message |-> event.body.params.message,
                        userId |-> event.body.params.userId,
                        displayName |-> event.body.params.displayName])]
    ELSE IF event.type = "clock_update" /\ "params" \in DOMAIN event.body
    THEN LET action == event.body.params.action
             paused == ~(action = "start" \/ action = "resume")
         IN  IF "totalTime" \in DOMAIN event.body.params
             THEN [state EXCEPT !.clock.paused = paused,
                                !.clock.totalTime = event.body.params.totalTime]
             ELSE [state EXCEPT !.clock.paused = paused]
    ELSE state

\* for (const event of events) { ... } from a given state.
RECURSIVE ApplyEvents(_, _)
ApplyEvents(state, evs) ==
    IF evs = <<>> THEN state
    ELSE ApplyEvents(ApplyEvent(state, Head(evs)), Tail(evs))

IgnoreMissingCreate(gid, evs) ==
    LET created == CreatePositions(evs)
        first == IF created = {} THEN [body |-> [timestamp |-> 0, params |-> [pid |-> "none"]]]
                 ELSE evs[CHOOSE i \in created : \A j \in created : i <= j]
    IN  [state |-> ApplyEvents(InitialGameState(gid, first), evs)]

\* reconstructGameState: throws without a create event, otherwise starts from
\* the first create event and applies every event of the list.
reconstructGameState(gid, evs) ==
    LET created == CreatePositions(evs)
    IN  IF created = {}
        THEN [error |-> "Game state cannot be reconstructed without create event"]
        ELSE LET createEvent == evs[CHOOSE i \in created : \A j \in created : i <= j]
             IN  IF "params" \notin DOMAIN createEvent.body
                 THEN [error |-> "TypeError"]
                 ELSE [state |-> ApplyEvents(InitialGameState(gid, createEvent), evs)]

\* The committed rows of a game.
GameRows(gid) == StreamRows(events["game_events"], gid)

\* getGameState: null for a stream without events, else the reconstruction.
getGameState(rows, gid) ==
    LET evs == GetEvents(rows, gid)
    IN  IF Len(evs) = 0 THEN [null |-> TRUE] ELSE reconstructGameState(gid, evs)

\* A caller asks for the state of a game.
GetGameState ==
    /\ \E gid \in GameIds :
          gameState' = [gid |-> gid,
                        result |-> getGameState(events["game_events"], gid),
                        from |-> "events",
                        tick |-> 1 - gameState.tick]
    /\ UNCHANGED <<snapshots, roomState, catalog, pages, incrementCalls, migVars, busVars, storeVars,
                   taskVars, sockVars, solveVars>>

\* The number of operations that write to game streams one after another.
NumGameWrites == 3
GameWriters == 1..NumGameWrites

\* It is this writer's turn: the one before it has returned.
TurnOf(t) == IF t = 1 THEN TRUE ELSE pc[t - 1] \in {"done", "failed"}

\* Events of a game that carry no clock: a fill, a chat message, the solve.
PlayEvents ==
    {[type |-> "cell_fill", body |-> NoBody],
     [type |-> "chat_message",
      body |-> [params |-> [message |-> "hi", userId |-> "u1", displayName |-> "U"]]],
     [type |-> "puzzle_solved", body |-> NoBody]}

\* GameService.addGameEvent(gid, event) for an event of a pool.
AppendGameEvent(t, pool) ==
    /\ pc[t] = "idle"
    /\ \E gid \in GameIds, e \in pool :
          BeginEvent(t, "addGameEvent", gid, "none", e.type, NoBody, e.body)

\* Games are created and played by calls made one after another, and their
\* state is asked for at any time.
NextProject ==
    \/ \E t \in GameWriters :
          \/ TurnOf(t) /\ CreateGame(t)
          \/ TurnOf(t) /\ AppendGameEvent(t, PlayEvents)
          \/ TxSelect(t) \/ TxInsert(t) \/ TxCommit(t)
    \/ GetGameState

SpecProject == Init /\ [][NextProject]_vars

(* ---- games created and written to by concurrent callers ---- *)

NextCreate ==
    \E t \in Writers :
        \/ CreateGame(t) \/ ServiceAddGameEvent(t)
        \/ AddEventStep(t)

SpecCreate == Init /\ [][NextCreate]_vars

(* ---- a game's clock ---- *)

\* totalTime values a clock_update may carry.
CarriedTimes == {5, -5}

\* clock_update events: an action, with or without a carried totalTime.
ClockEvents ==
    {[type |-> "clock_update", body |-> [params |-> [action |-> a]]] :
        a \in {"start", "pause", "resume"}}
    \cup {[type |-> "clock_update", body |-> [params |-> [action |-> a, totalTime |-> n]]] :
            a \in {"start", "pause", "resume"}, n \in CarriedTimes}

\* Games are created and receive clock updates by calls made one after
\* another, and their state is asked for at any time.
NextClock ==
    \/ \E t \in GameWriters :
          \/ TurnOf(t) /\ CreateGame(t)
          \/ TurnOf(t) /\ AppendGameEvent(t, ClockEvents)
          \/ TxSelect(t) \/ TxInsert(t) \/ TxCommit(t)
    \/ GetGameState

SpecClock == Init /\ [][NextClock]_vars

(* ---- snapshots of a game and the events after them ---- *)

GetEventsFromSequence(rows, gid, afterSeq) ==
    LET sorted == OrderBySeqAsc({r \in StreamRows(rows, gid) :
                                    r.sequenceNumber >= afterSeq})
    IN  [i \in 1..Len(sorted) |-> sorted[i].eventPayload]

\* getEventsAfterSequence: WHERE gid = ? AND sequence_number > ? ORDER BY
\* sequence_number ASC.
getEventsAfterSequence(rows, gid, afterSeq) ==
    LET sorted == OrderBySeqAsc({r \in StreamRows(rows, gid) :
                                    r.sequenceNumber > afterSeq})
    IN  [i \in 1..Len(sorted) |-> sorted[i].eventPayload]

\* getSnapshot: the row of the game in game_snapshots (the empty set is null).
getSnapshot(snaps, gid) == snaps[gid]

\* saveSnapshot: INSERT ... ON CONFLICT (gid) DO UPDATE.
saveSnapshot(snaps, data) == [snaps EXCEPT ![data.gid] = {data}]

\* The events of a game up to a sequence number, ascending.
PrefixUpTo(rows, gid, k) ==
    LET sorted == OrderBySeqAsc({r \in StreamRows(rows, gid) : r.sequenceNumber <= k})
    IN  [i \in 1..Len(sorted) |-> sorted[i].eventPayload]

\* A snapshot of a game is taken: the projection of its events up to a
\* persisted sequence number k is saved with snapshotVersion k.
TakeSnapshot ==
    /\ \E gid \in GameIds :
          \E k \in {r.sequenceNumber : r \in GameRows(gid)} :
              LET projected == reconstructGameState(gid, PrefixUpTo(events["game_events"], gid, k))
              IN  /\ "state" \in DOMAIN projected
                  /\ snapshots' = saveSnapshot(snapshots,
                                     [gid |-> gid, snapshotData |-> projected.state,
                                      snapshotVersion |-> k])
    /\ UNCHANGED <<gameState, roomState, catalog, pages, incrementCalls, migVars, busVars, storeVars,
                   taskVars, sockVars, solveVars>>

\* Projection with a snapshot: start from the snapshot's data and apply the
\* events after its snapshotVersion.
ProjectFromSnapshot(snapshot, rows) ==
    [state |-> ApplyEvents(snapshot.snapshotData,
                           getEventsAfterSequence(rows, snapshot.gid, snapshot.snapshotVersion))]

\* A caller asks for the state of a game that has a snapshot.
GetGameStateFromSnapshot ==
    /\ \E gid \in GameIds :
          /\ getSnapshot(snapshots, gid) # {}
          /\ gameState' = [gid |-> gid,
                           result |-> ProjectFromSnapshot(
                                          CHOOSE sn \in getSnapshot(snapshots, gid) : TRUE,
                                          events["game_events"]),
                           from |-> "snapshot",
                           tick |-> 1 - gameState.tick]
    /\ UNCHANGED <<snapshots, roomState, catalog, pages, incrementCalls, migVars, busVars, storeVars,
                   taskVars, sockVars, solveVars>>

\* An event that pauses the clock at a carried total.
ClockPaused == [type |-> "clock_update", body |-> [params |-> [action |-> "pause", totalTime |-> 5]]]

\* Games are created and played by calls made one after another; snapshots
\* are taken and states asked for from a snapshot at any time.
NextSnapshot ==
    \/ \E t \in GameWriters :
          \/ TurnOf(t) /\ CreateGame(t)
          \/ TurnOf(t) /\ AppendGameEvent(t, PlayEvents \cup {ClockPaused})
          \/ TxSelect(t) \/ TxInsert(t) \/ TxCommit(t)
    \/ TakeSnapshot
    \/ GetGameStateFromSnapshot

SpecSnapshot == Init /\ [][NextSnapshot]_vars

(* ---- the snapshot slot of a game as the repository keeps it ---- *)

\* snapshotVersion values a caller of saveSnapshot may pass.
SnapshotVersions == 0..(NumGameWrites + 1)

\* GameEventRepository.saveSnapshot(data) called with the state projected
\* from the game's events and a version of the caller's choice: the row is
\* upserted as given.
SaveSnapshot ==
    /\ \E gid \in GameIds, version \in SnapshotVersions :
          LET projected == getGameState(events["game_events"], gid)
          IN  /\ "state" \in DOMAIN projected
              /\ snapshots' = saveSnapshot(snapshots,
                                 [gid |-> gid, snapshotData |-> projected.state,
                                  snapshotVersion |-> version])
    /\ UNCHANGED <<gameState, roomState, catalog, pages, incrementCalls, migVars, busVars, storeVars,
                   taskVars, sockVars, solveVars>>

\* Games are created and played by calls made one after another, and
\* snapshots are saved at any time.
NextSlot ==
    \/ \E t \in GameWriters :
          \/ TurnOf(t) /\ CreateGame(t)
          \/ TurnOf(t) /\ AppendGameEvent(t, PlayEvents)
          \/ TxSelect(t) \/ TxInsert(t) \/ TxCommit(t)
    \/ SaveSnapshot

SpecSlot == Init /\ [][NextSlot]_vars

(* ---- RoomService.getRoomState: the projection of a room stream ---- *)

UserMapAppend(userMap, value) == Append(userMap, value)

\* userMap.set(params.userId, value): a Map keeps its keys in insertion
\* order, and setting a key it has replaces the value in place.
UserMapSet(userMap, value) ==
    IF \E i \in DOMAIN userMap : userMap[i].userId = value.userId
    THEN [i \in DOMAIN userMap |->
             IF userMap[i].userId = value.userId THEN value ELSE userMap[i]]
    ELSE Append(userMap, value)

\* userMap.delete(params.userId)
UserMapDelete(userMap, userId) ==
    LET keep == {i \in DOMAIN userMap : userMap[i].userId # userId}
        RECURSIVE Kept(_)
        Kept(i) == IF i > Len(userMap) THEN <<>>
                   ELSE (IF i \in keep THEN <<userMap[i]>> ELSE <<>>) \o Kept(i + 1)
    IN  Kept(1)

ReplaceSettings(settings, update) == update

\* {...state.settings, ...params.settings}
MergeSettings(settings, update) == update @@ settings

\* One round of the loop over the events of a room; users holds the values
\* of userMap in the order of the Map.
ApplyRoomEvent(state, event) ==
    IF event.type = "user_join" /\ "params" \in DOMAIN event.body
    THEN IF /\ "userId" \in DOMAIN event.body.params
            /\ "displayName" \in DOMAIN event.body.params
         THEN [state EXCEPT !.users =
                  UserMapSet(@, [userId |-> event.body.params.userId,
                                 displayName |-> event.body.params.displayName,
                                 joinedAt |-> event.body.timestamp])]
         ELSE state
    ELSE IF event.type = "user_leave" /\ "params" \in DOMAIN event.body
    THEN IF "userId" \in DOMAIN event.body.params
         THEN [state EXCEPT !.users = UserMapDelete(@, event.body.params.userId)]
         ELSE state
    ELSE IF event.type = "room_settings_update" /\ "params" \in DOMAIN event.body
    THEN IF "settings" \in DOMAIN event.body.params
         THEN [state EXCEPT !.settings = MergeSettings(@, event.body.params.settings)]
         ELSE state
    ELSE state

RECURSIVE ApplyRoomEvents(_, _)
ApplyRoomEvents(state, evs) ==
    IF evs = <<>> THEN state
    ELSE ApplyRoomEvents(ApplyRoomEvent(state, Head(evs)), Tail(evs))

\* reconstructRoomState: no users and no settings, then every event.
reconstructRoomState(rid, evs) ==
    ApplyRoomEvents([rid |-> rid, users |-> <<>>, settings |-> NoSettings], evs)

\* getRoomState: null for a stream without events, else the reconstruction.
getRoomState(rows, rid) ==
    LET evs == GetEvents(rows, rid)
    IN  IF Len(evs) = 0 THEN [null |-> TRUE] ELSE [state |-> reconstructRoomState(rid, evs)]

\* A caller asks for the state of a room.
GetRoomState ==
    /\ \E rid \in RoomIds :
          roomState' = [rid |-> rid,
                        result |-> getRoomState(events["room_events"], rid),
                        tick |-> 1 - roomState.tick]
    /\ UNCHANGED <<gameState, snapshots, catalog, pages, incrementCalls, migVars, busVars, storeVars,
                   taskVars, sockVars, solveVars>>

\* The number of operations that write to room streams one after another.
NumRoomWrites == 3
RoomWriters == 1..NumRoomWrites

\* user_join and user_leave events of two users; a user joins under one name
\* at one time and under another name at a later time.
MemberEvents ==
    {[type |-> "user_join",
      body |-> [timestamp |-> j[2], params |-> [userId |-> u, displayName |-> j[1]]]] :
        u \in {"u1", "u2"}, j \in {<<"Ann", 10>>, <<"Bob", 20>>}}
    \cup {[type |-> "user_leave", body |-> [timestamp |-> 30, params |-> [userId |-> u]]] :
            u \in {"u1", "u2"}}

\* RoomService.addRoomEvent(rid, event) for an event of a pool.
AppendRoomEvent(t, pool) ==
    /\ pc[t] = "idle"
    /\ \E rid \in RoomIds, e \in pool :
          BeginEvent(t, "addRoomEvent", rid, "none", e.type, NoBody, e.body)

\* A room is created and its users join and leave by calls made one after
\* another, and its state is asked for at any time.
NextRoom ==
    \/ \E t \in RoomWriters :
          \/ TurnOf(t) /\ CreateRoom(t)
          \/ TurnOf(t) /\ AppendRoomEvent(t, MemberEvents)
          \/ TxSelect(t) \/ TxInsert(t) \/ TxCommit(t)
    \/ GetRoomState

SpecRoom == Init /\ [][NextRoom]_vars

(* ---- a room's settings ---- *)

\* settings of room_settings_update events: one key, two keys (one of them
\* with another value), the other key alone.
SettingsUpdates ==
    {[gameMode |-> "competitive"],
     [gameMode |-> "casual", maxPlayers |-> "4"],
     [maxPlayers |-> "8"]}

SettingsEvents ==
    {[type |-> "room_settings_update", body |-> [timestamp |-> 10, params |-> [settings |-> st]]] :
        st \in SettingsUpdates}

\* A room is created and its settings are updated by calls made one after
\* another, and its state is asked for at any time.
NextSettings ==
    \/ \E t \in RoomWriters :
          \/ TurnOf(t) /\ CreateRoom(t)
          \/ TurnOf(t) /\ AppendRoomEvent(t, SettingsEvents)
          \/ TxSelect(t) \/ TxInsert(t) \/ TxCommit(t)
    \/ GetRoomState

SpecSettings == Init /\ [][NextSettings]_vars

(* ---- PuzzleService.createPuzzle and PuzzleRepository.listPublic ---- *)

\* A pid is its leading digits (none for a pid that starts otherwise, such as
\* a UUID) and the rest of the string.
ListPids ==
    {[digits |-> <<7>>, rest |-> "-a"], [digits |-> <<7>>, rest |-> "-b"],
     [digits |-> <<9>>, rest |-> "-a"],
     [digits |-> <<>>, rest |-> "x"], [digits |-> <<>>, rest |-> "y"]}

\* extractNumericPid: pid.match(/^(\d+)/), null without leading digits.
extractNumericPid(pid) ==
    IF pid.digits = <<>> THEN [null |-> TRUE] ELSE [text |-> pid.digits]

\* PuzzleService.createPuzzle: a row with the pid (unique), its numeric part
\* and the request's isPublic.
CreatePuzzle ==
    /\ \E pid \in ListPids, isPublic \in BOOLEAN :
          /\ \A r \in catalog : r.pid # pid
          /\ catalog' = catalog \cup {[pid |-> pid, pidNumeric |-> extractNumericPid(pid),
                                      isPublic |-> isPublic]}
    /\ UNCHANGED <<pages, gameState, snapshots, roomState, incrementCalls, migVars, busVars, storeVars,
                   taskVars, sockVars, solveVars>>

\* Comparison of two texts of digits, character by character.
RECURSIVE TextLess(_, _)
TextLess(a, b) ==
    IF b = <<>> THEN FALSE
    ELSE IF a = <<>> THEN TRUE
    ELSE IF Head(a) # Head(b) THEN Head(a) < Head(b)
    ELSE TextLess(Tail(a), Tail(b))

\* ORDER BY pid_numeric DESC NULLS LAST: row a must come before row b.
SortsBefore(a, b) ==
    /\ "text" \in DOMAIN a.pidNumeric
    /\ \/ "null" \in DOMAIN b.pidNumeric
       \/ /\ "text" \in DOMAIN b.pidNumeric
          /\ TextLess(b.pidNumeric.text, a.pidNumeric.text)

\* The orders a query may return the rows in: every arrangement that agrees
\* with the ORDER BY clause; rows with equal or null pid_numeric come in an
\* order the database is free to choose for each query.
OrderByPidNumeric(rows) ==
    {o \in [1..Cardinality(rows) -> rows] :
        /\ \A i, j \in DOMAIN o : i # j => o[i] # o[j]
        /\ \A i, j \in DOMAIN o : i < j => ~SortsBefore(o[j], o[i])}

\* LIMIT limit OFFSET offset over an ordered result.
LimitOffset(o, limit, offset) ==
    [i \in 1..(IF Len(o) <= offset THEN 0
               ELSE IF Len(o) - offset < limit THEN Len(o) - offset ELSE limit) |->
        o[offset + i]]

\* listPublic without filters: the possible results of SELECT pid ... WHERE
\* is_public = true ORDER BY pid_numeric DESC NULLS LAST LIMIT .. OFFSET ..
listPublic(rows, limit, offset) ==
    {[i \in DOMAIN LimitOffset(o, limit, offset) |-> LimitOffset(o, limit, offset)[i].pid] :
        o \in OrderByPidNumeric({r \in rows : r.isPublic})}

\* The largest page size asked for.
MaxLimit == 2

\* A client asks for the first page and then for the second.
ListPublicPages ==
    /\ \E limit \in 1..MaxLimit :
          \E first \in listPublic(catalog, limit, 0), second \in listPublic(catalog, limit, limit) :
              pages' = [first |-> first, second |-> second, limit |-> limit,
                        tick |-> 1 - pages.tick]
    /\ UNCHANGED <<catalog, gameState, snapshots, roomState, incrementCalls, migVars, busVars, storeVars,
                   taskVars, sockVars, solveVars>>

NextList == CreatePuzzle \/ ListPublicPages

SpecList == Init /\ [][NextList]_vars

(* ---- PuzzleRepository.incrementSolveCount ---- *)

TimesSolvedFromStaleRead(table, pid) ==
    [p \in DOMAIN table |-> IF p = pid THEN 1 ELSE table[p]]

\* UPDATE puzzles SET times_solved = times_solved + 1 WHERE pid = ?
TimesSolvedPlusOne(table, pid) ==
    [p \in DOMAIN table |-> IF p = pid THEN table[p] + 1 ELSE table[p]]

\* The number of incrementSolveCount calls made for one pid outside
\* recordSolve.
MaxIncrements == 2

\* PuzzleService.incrementSolveCount(pid): the UPDATE runs on the pool and
\* commits on its own; it waits while a transaction holds the puzzle's row.
IncrementSolveCount ==
    /\ \E pid \in RequestPids :
          /\ incrementCalls[pid] < MaxIncrements
          /\ \A o \in SolveCalls : pid \notin txIncr[o]
          /\ puzzles' = TimesSolvedPlusOne(puzzles, pid)
          /\ incrementCalls' = [incrementCalls EXCEPT ![pid] = @ + 1]
    /\ UNCHANGED <<events, puzzleSolves, gameState, snapshots, roomState, catalog, pages,
                   migVars, busVars, taskVars, sockVars, solveVars>>

\* Concurrent incrementSolveCount calls, on their own and inside recordSolve
\* transactions, over a store that may fail.
NextIncrement ==
    \/ IncrementSolveCount
    \/ \E c \in SolveCalls :
          \/ \E pid \in RequestPids : RecordSolveFor(c, pid, "g" \o ToString(c), 10)
          \/ SolveStep(c)
          \/ SolveStoreFails(c)

SpecIncrement == Init /\ [][NextIncrement]_vars

(* ---- one appender against a row of others, under a fair scheduler ---- *)

\* Task t's addEvent call has returned or thrown.
AddEventEnded(t) == pc[t] \in {"done", "emit", "failed"}

\* The first two callers start at any time; each further caller starts when
\* the one before it has ended, so that a caller can lose the race for its
\* number to one other caller after another.
StartsInTurn(t) == IF t <= 2 THEN TRUE ELSE AddEventEnded(t - 1)

RetryStep(t) == (StartsInTurn(t) /\ TxSelect(t)) \/ TxInsert(t) \/ TxCommit(t)

NextRetry == \E t \in 1..BurstTasks : RetryStep(t)

\* The event loop runs every continuation that is ready, the timer of a
\* backoff fires and the database finishes every statement it can run.
SpecRetry ==
    /\ InitBurst
    /\ [][NextRetry]_vars
    /\ \A t \in 1..BurstTasks : WF_vars(RetryStep(t))

(* ---- recordSolve: a unique-constraint violation inside the transaction ---- *)

\* solveRepo.create(...) fails with 23505: the id drawn by randomUUID() is
\* the primary key of a committed row (puzzle_solves has no other unique
\* index).  db.transaction rolls back and rethrows into the catch block.
TxCreateSolveViolates(c) ==
    /\ spc[c] = "create"
    /\ puzzleSolves # {}
    /\ puzzleSolves' = RolledBack(puzzleSolves, txSolve[c])
    /\ txSolve' = [txSolve EXCEPT ![c] = {}]
    /\ txIncr' = [txIncr EXCEPT ![c] = {}]
    /\ spc' = [spc EXCEPT ![c] = "reread"]
    /\ UNCHANGED <<sreq, sError, events, puzzles, taskVars, sockVars, readVars, busVars>>

RethrowWithoutReread(c) ==
    /\ spc[c] = "reread"
    /\ spc' = [spc EXCEPT ![c] = "failed"]
    /\ sError' = [sError EXCEPT ![c] = "23505"]
    /\ UNCHANGED <<sreq, txSolve, txIncr, storeVars, taskVars, sockVars, readVars, busVars>>

\* The catch block for code 23505: findByPidAndGid(pid, gid) outside the
\* transaction; return {} when a row exists, rethrow the error otherwise.
RereadSolve(c) ==
    /\ spc[c] = "reread"
    /\ \/ /\ FindByPidAndGid(puzzleSolves, sreq[c].pid, sreq[c].gid) # {}
          /\ spc' = [spc EXCEPT ![c] = "done"]
          /\ UNCHANGED sError
       \/ /\ FindByPidAndGid(puzzleSolves, sreq[c].pid, sreq[c].gid) = {}
          /\ spc' = [spc EXCEPT ![c] = "failed"]
          /\ sError' = [sError EXCEPT ![c] = "23505"]
    /\ UNCHANGED <<sreq, txSolve, txIncr, storeVars, taskVars, sockVars, readVars, busVars>>

\* Concurrent recordSolve calls whose inserts may violate the primary key.
NextSolveConflict ==
    \E c \in SolveCalls :
        \/ \E pid \in RequestPids, gid \in GameIds : RecordSolveFor(c, pid, gid, 10)
        \/ SolveStep(c)
        \/ TxCreateSolveViolates(c)
        \/ RereadSolve(c)

SpecSolveConflict == Init /\ [][NextSolveConflict]_vars

(* ---- a game's clock and the timestamps of its events ---- *)

\* clock_update events as clients send them, each with the timestamp it was
\* made at: a start, a pause with and without a carried totalTime, a resume.
TimedClockEvents ==
    {[type |-> "clock_update", body |-> [timestamp |-> 1500, params |-> [action |-> "start"]]],
     [type |-> "clock_update", body |-> [timestamp |-> 2200, params |-> [action |-> "pause"]]],
     [type |-> "clock_update",
      body |-> [timestamp |-> 2200, params |-> [action |-> "pause", totalTime |-> 700]]],
     [type |-> "clock_update", body |-> [timestamp |-> 3000, params |-> [action |-> "resume"]]]}

\* Games are created and receive timestamped clock updates by calls made one
\* after another.
NextClockTimes ==
    \E t \in GameWriters :
        \/ TurnOf(t) /\ CreateGame(t)
        \/ TurnOf(t) /\ AppendGameEvent(t, TimedClockEvents)
        \/ TxSelect(t) \/ TxInsert(t) \/ TxCommit(t)

SpecClockTimes == Init /\ [][NextClockTimes]_vars

(* ---- a game's grid ---- *)

\* Events on the cells of the grid: fills of two cells, a clear and a reveal.
GridEvents ==
    {[type |-> "cell_fill", body |-> [params |-> [row |-> 0, col |-> 0, value |-> "X"]]],
     [type |-> "cell_fill", body |-> [params |-> [row |-> 0, col |-> 1, value |-> "Y"]]],
     [type |-> "cell_clear", body |-> [params |-> [row |-> 0, col |-> 0]]],
     [type |-> "cell_reveal", body |-> [params |-> [row |-> 0, col |-> 0]]]}

\* Games are created and their cells written by calls made one after another.
NextGrid ==
    \E t \in GameWriters :
        \/ TurnOf(t) /\ CreateGame(t)
        \/ TurnOf(t) /\ AppendGameEvent(t, GridEvents)
        \/ TxSelect(t) \/ TxInsert(t) \/ TxCommit(t)

SpecGrid == Init /\ [][NextGrid]_vars

(* ---- runMigrations: the advisory lock and the apply loop ---- *)

\* The entries of sql/migrations: a name is its text before the extension
\* (a sequence of characters, here digits) and the extension.
MigrationsFolder ==
    {[text |-> <<0, 1>>, ext |-> ".sql"], [text |-> <<0, 0>>, ext |-> ".sql"],
     [text |-> <<0, 0>>, ext |-> ".md"]}

\* readdirSync(...).filter((file) => file.endsWith('.sql')).sort()
migrationFiles ==
    LET kept == {f \in MigrationsFolder : f.ext = ".sql"}
    IN  CHOOSE o \in [1..Cardinality(kept) -> kept] :
            \A i, j \in DOMAIN o : i < j => TextLess(o[i].text, o[j].text)

\* file.slice(0, -4): the file name without its extension.
HashOf(file) == file.text

\* The runs each runner may start.
MaxRuns == 2

\* runMigrations is called: a connection of its own is opened, the tracking
\* table is there, the files are listed (there are some).
StartMigrations(p) ==
    /\ migrationRun[p].pc \in {"idle", "done", "failed"}
    /\ migrationRun[p].runs < MaxRuns
    /\ migrationRun' = [migrationRun EXCEPT ![p] =
          [pc |-> "lock", file |-> 0, tx |-> <<>>, runs |-> @.runs + 1, error |-> "none",
           warned |-> FALSE]]
    /\ UNCHANGED <<advisoryLock, drizzle_migrations, applied>>
    /\ UNCHANGED <<storeVars, taskVars, sockVars, solveVars, busVars, gameState, snapshots,
                   roomState, catalog, pages, incrementCalls>>

TryLockUnchecked(p) ==
    /\ migrationRun[p].pc = "lock"
    /\ migrationRun' = [migrationRun EXCEPT ![p].pc = "check", ![p].file = 1]
    /\ advisoryLock' = IF advisoryLock = 0 THEN p ELSE advisoryLock
    /\ UNCHANGED <<drizzle_migrations, applied>>
    /\ UNCHANGED <<storeVars, taskVars, sockVars, solveVars, busVars, gameState, snapshots,
                   roomState, catalog, pages, incrementCalls>>

\* SELECT pg_try_advisory_lock(key): the session gets the lock when no other
\* session holds it; without it, or when the query fails, the run throws
\* (the outer finally then ends the connection).
TryLock(p) ==
    /\ migrationRun[p].pc = "lock"
    /\ \/ /\ advisoryLock = 0
          /\ advisoryLock' = p
          /\ migrationRun' = [migrationRun EXCEPT ![p].pc = "check", ![p].file = 1]
       \/ /\ advisoryLock # 0
          /\ advisoryLock' = advisoryLock
          /\ migrationRun' = [migrationRun EXCEPT ![p].pc = "end",
                                 ![p].error = "Could not acquire migration lock"]
       \/ /\ advisoryLock' = advisoryLock
          /\ migrationRun' = [migrationRun EXCEPT ![p].pc = "end",
                                 ![p].error = "Failed to acquire migration lock"]
    /\ UNCHANGED <<drizzle_migrations, applied>>
    /\ UNCHANGED <<storeVars, taskVars, sockVars, solveVars, busVars, gameState, snapshots,
                   roomState, catalog, pages, incrementCalls>>

\* One round of the loop up to the transaction: past the last file the loop
\* ends; a file whose hash has a row is skipped; another one is read.
CheckApplied(p) ==
    /\ migrationRun[p].pc = "check"
    /\ LET i == migrationRun[p].file
       IN  migrationRun' =
             IF i > Len(migrationFiles)
             THEN [migrationRun EXCEPT ![p].pc = "unlock"]
             ELSE IF \E k \in DOMAIN drizzle_migrations :
                        drizzle_migrations[k] = HashOf(migrationFiles[i])
             THEN [migrationRun EXCEPT ![p].file = i + 1]
             ELSE [migrationRun EXCEPT ![p].pc = "apply"]
    /\ UNCHANGED <<advisoryLock, drizzle_migrations, applied>>
    /\ UNCHANGED <<storeVars, taskVars, sockVars, solveVars, busVars, gameState, snapshots,
                   roomState, catalog, pages, incrementCalls>>

AutoCommitSql(p) ==
    /\ migrationRun[p].pc = "apply"
    /\ migrationRun' = [migrationRun EXCEPT ![p].pc = "record"]
    /\ applied' = Append(applied, migrationFiles[migrationRun[p].file])
    /\ UNCHANGED <<advisoryLock, drizzle_migrations>>
    /\ UNCHANGED <<storeVars, taskVars, sockVars, solveVars, busVars, gameState, snapshots,
                   roomState, catalog, pages, incrementCalls>>

\* migrationClient.begin + sql.unsafe(migrationSQL): the file's statements
\* have run in the transaction and are not committed.
RunSql(p) ==
    /\ migrationRun[p].pc = "apply"
    /\ migrationRun' = [migrationRun EXCEPT
          ![p].pc = "record", ![p].tx = <<migrationFiles[migrationRun[p].file]>>]
    /\ UNCHANGED <<advisoryLock, drizzle_migrations, applied>>
    /\ UNCHANGED <<storeVars, taskVars, sockVars, solveVars, busVars, gameState, snapshots,
                   roomState, catalog, pages, incrementCalls>>

\* INSERT INTO drizzle_migrations (hash, created_at) and the end of the
\* callback: the transaction commits the file's statements and the row.
RecordAndCommit(p) ==
    /\ migrationRun[p].pc = "record"
    /\ applied' = applied \o migrationRun[p].tx
    /\ drizzle_migrations' =
          Append(drizzle_migrations, HashOf(migrationFiles[migrationRun[p].file]))
    /\ migrationRun' = [migrationRun EXCEPT
          ![p].pc = "check", ![p].tx = <<>>, ![p].file = @ + 1]
    /\ UNCHANGED advisoryLock
    /\ UNCHANGED <<storeVars, taskVars, sockVars, solveVars, busVars, gameState, snapshots,
                   roomState, catalog, pages, incrementCalls>>

\* A statement of the loop fails (the SELECT, the file's SQL, the INSERT or
\* the commit): the transaction, if any, is rolled back and the error leaves
\* the loop through the finally block.
MigrationFails(p) ==
    /\ migrationRun[p].pc \in {"check", "apply", "record"}
    /\ migrationRun[p].file <= Len(migrationFiles)
    /\ migrationRun' = [migrationRun EXCEPT
          ![p].pc = "unlock", ![p].tx = <<>>, ![p].error = "migration failed"]
    /\ UNCHANGED <<advisoryLock, drizzle_migrations, applied>>
    /\ UNCHANGED <<storeVars, taskVars, sockVars, solveVars, busVars, gameState, snapshots,
                   roomState, catalog, pages, incrementCalls>>

SkipUnlock(p) ==
    /\ migrationRun[p].pc = "unlock"
    /\ migrationRun' = [migrationRun EXCEPT ![p].pc = "end"]
    /\ UNCHANGED <<advisoryLock, drizzle_migrations, applied>>
    /\ UNCHANGED <<storeVars, taskVars, sockVars, solveVars, busVars, gameState, snapshots,
                   roomState, catalog, pages, incrementCalls>>

\* finally { SELECT pg_advisory_unlock(key).catch(warn) }: the lock is
\* released, or the query fails, which is logged and not thrown.
Unlock(p) ==
    /\ migrationRun[p].pc = "unlock"
    /\ \/ /\ advisoryLock' = IF advisoryLock = p THEN 0 ELSE advisoryLock
          /\ migrationRun' = [migrationRun EXCEPT ![p].pc = "end"]
       \/ /\ advisoryLock' = advisoryLock
          /\ migrationRun' = [migrationRun EXCEPT ![p].pc = "end", ![p].warned = TRUE]
    /\ UNCHANGED <<drizzle_migrations, applied>>
    /\ UNCHANGED <<storeVars, taskVars, sockVars, solveVars, busVars, gameState, snapshots,
                   roomState, catalog, pages, incrementCalls>>

\* finally { await migrationClient.end() }: the connection is closed, and
\* with it the session, whose advisory locks the server releases; then
\* runMigrations returns, or rethrows the error it caught.
EndConnection(p) ==
    /\ migrationRun[p].pc = "end"
    /\ advisoryLock' = IF advisoryLock = p THEN 0 ELSE advisoryLock
    /\ migrationRun' = [migrationRun EXCEPT
          ![p].pc = IF migrationRun[p].error = "none" THEN "done" ELSE "failed"]
    /\ UNCHANGED <<drizzle_migrations, applied>>
    /\ UNCHANGED <<storeVars, taskVars, sockVars, solveVars, busVars, gameState, snapshots,
                   roomState, catalog, pages, incrementCalls>>

NextMigrate ==
    \E p \in Runners :
        \/ StartMigrations(p) \/ TryLock(p) \/ CheckApplied(p) \/ RunSql(p)
        \/ RecordAndCommit(p) \/ MigrationFails(p) \/ Unlock(p) \/ EndConnection(p)

SpecMigrate == Init /\ [][NextMigrate]_vars

(* ---- appenders that retry, over a store that may fail ---- *)

AppendStep(t) ==
    (StartsInTurn(t) /\ TxSelect(t)) \/ TxInsert(t) \/ TxCommit(t) \/ StoreFails(t)

\* The callers of the burst, each further caller starting when the one
\* before it has ended, over a store whose statements may fail at any point.
NextAppend == \E t \in 1..BurstTasks : AppendStep(t)

SpecAppend == InitBurst /\ [][NextAppend]_vars

(* ---- the acknowledgements of one connection's requests ---- *)

\* Two requests of the same socket, handled concurrently.
AckTasks == {1, 1 + NumSockets}

\* A client that has joined streams sends game_event and room_event
\* messages over a store that may fail.
NextAck ==
    \/ \E t \in AckTasks :
          \/ SocketGameEvent(t) \/ SocketRoomEvent(t)
          \/ AddEventStep(t)
          \/ Emit(t)
    \/ Join(SenderOf(1))

SpecAck == Init /\ [][NextAck]_vars

(* ---- a game that is reported solved again ---- *)

\* recordSolve for the game that is played, with any time_to_solve.
RecordSolveAgain(c) ==
    \E time \in TimesToSolve : RecordSolveFor(c, "p1", CountedGame, time)

\* A reveal of a cell and a check of another.
RevealEvents ==
    {[type |-> "cell_reveal", body |-> [params |-> [row |-> 0, col |-> 0]]],
     [type |-> "cell_check", body |-> [params |-> [row |-> 0, col |-> 1]]]}

\* The calls that append them: one before and one after a solve, at least.
RevealWriters == {1, 2}

\* GameService.addGameEvent(gid, event) for a reveal or a check of the game.
AppendReveal(t) ==
    /\ TurnOf(t)
    /\ \E e \in RevealEvents :
          BeginEvent(t, "addGameEvent", CountedGame, "none", e.type, NoBody, e.body)

\* Reveals and checks are appended to the game one after another while
\* recordSolve is called for it, at any moment and by concurrent callers.
NextResolve ==
    \/ \E t \in RevealWriters : AppendReveal(t) \/ TxSelect(t) \/ TxInsert(t) \/ TxCommit(t)
    \/ \E c \in SolveCalls : RecordSolveAgain(c) \/ SolveStep(c)

SpecResolve == Init /\ [][NextResolve]_vars

(* ======================= properties ======================= *)

StreamIds == GameIds \cup RoomIds

\* The committed row that holds the event of task t, if any.
CommittedRowsOf(t) ==
    {r \in events[TableOf(req[t].kind)] : r.id = req[t].id /\ r.eventPayload = PayloadOf(t)}

IsPrefix(a, b) == Len(a) <= Len(b) /\ \A i \in 1..Len(a) : a[i] = b[i]

\* C1: in every reachable state, whatever the interleaving of concurrent
\* addEvent calls and their failed and retried attempts, the committed
\* sequence numbers of every stream are exactly 1..N, each carried by one row,
\* so no two successful calls were given the same number.
SeqsContiguous ==
    \A tb \in DOMAIN events : \A id \in StreamIds :
        LET rows == StreamRows(events[tb], id)
        IN  /\ {r.sequenceNumber : r \in rows} = 1..Cardinality(rows)
            /\ \A r1, r2 \in rows : r1.sequenceNumber = r2.sequenceNumber => r1 = r2

\* A retried attempt is about to commit behind a committed event while a call
\* on the same stream has failed.
SeqsContiguousWitness ==
    \E t \in Writers, o \in Writers :
        /\ pc[t] = "commit" /\ attempt[t] > 0
        /\ Cardinality(StreamRows(events[TableOf(req[t].kind)], req[t].id)) = 1
        /\ pc[o] = "failed" /\ req[o].id = req[t].id

\* C10: no step of the program changes or removes a committed event: every
\* table only grows, and what a stream reads as after a step has what it read
\* as before the step as a prefix.
AppendOnly ==
    [][\A tb \in DOMAIN events :
          /\ events[tb] \subseteq events'[tb]
          /\ \A id \in StreamIds :
                IsPrefix(GetEvents(events[tb], id), GetEvents(events'[tb], id))]_vars

\* A stream that has been read as one event and has grown to three.
AppendOnlyWitness ==
    \E tb \in DOMAIN events : \E id \in StreamIds :
        Len(GetEvents(events[tb], id)) = 3

\* C2: every event frame pushed to a subscriber is the payload of a row
\* committed to its stream, and a socket handler whose append failed has sent
\* the error frame to its sender and has pushed its event to nobody.
PersistThenBroadcast ==
    /\ \A s \in Sockets : \A i \in 1..Len(inbox[s]) :
          CommittedRowsOf(inbox[s][i].src) # {}
    /\ \A t \in Handlers :
          (pc[t] = "failed" /\ req[t].kind \in SocketKinds) =>
              /\ <<req[t].kind, t>> \in errors[SenderOf(t)]
              /\ \A s \in Sockets : PayloadOf(t) \notin Range(inbox[s])

\* One subscriber of a stream has been pushed an event of it, and another
\* event sent to that stream failed to append.
PersistThenBroadcastWitness ==
    \E s \in Sockets, t \in Handlers, o \in Handlers :
        /\ pc[t] = "failed" /\ req[t].kind \in SocketKinds
        /\ RoomName(req[t].kind, req[t].id) \in rooms[s]
        /\ pc[o] = "done" /\ req[o].kind = req[t].kind /\ req[o].id = req[t].id
        /\ PayloadOf(o) \in Range(inbox[s])

\* C7: a subscriber receives the events of one stream in ascending order of
\* the sequence numbers the store gave them.
OrderedDelivery ==
    \A s \in Sockets : \A i, j \in 1..Len(inbox[s]) :
        LET a == inbox[s][i].src
            b == inbox[s][j].src
        IN  (i < j /\ RoomName(req[a].kind, req[a].id) = RoomName(req[b].kind, req[b].id)) =>
                \A ra \in CommittedRowsOf(a), rb \in CommittedRowsOf(b) :
                    ra.sequenceNumber < rb.sequenceNumber

\* C8: once an appending operation has returned successfully, every socket
\* that has been joined to the stream since the commit has been pushed the
\* event.
FanOutComplete ==
    \A t \in Handlers :
        pc[t] = "done" => \A s \in owed[t] : PayloadOf(t) \in Range(inbox[s])

\* C9: a sync that does not fail replies with exactly the events committed to
\* the requested stream when it reads: as many as the stream has rows, the
\* i-th being the payload of the row with sequence number i.
SyncReadsStream ==
    [][\A s \in Sockets :
          (synced'[s].tick # synced[s].tick /\ synced'[s].ok) =>
              LET room == synced'[s].room
                  rows == StreamRows(events[TableOfRoom(room)], room[2])
                  reply == synced'[s].reply
              IN  /\ Len(reply) = Cardinality(rows)
                  /\ \A i \in 1..Len(reply) :
                        \E r \in rows : r.sequenceNumber = i /\ r.eventPayload = reply[i]]_vars

\* One client holds the reply of a sync of a stream with an event of every
\* writer, another
\* the empty reply of a stream without events.
SyncReadsStreamWitness ==
    \E s, e \in Sockets :
        /\ synced[s].ok /\ Len(synced[s].reply) = NumHandlers
        /\ synced[e].ok /\ synced[e].tick = 1 /\ synced[e].reply = <<>>
        /\ StreamRows(events[TableOfRoom(synced[e].room)], synced[e].room[2]) = {}

\* C6: when the K tasks each append one event to the same stream, no addEvent
\* call fails, and once all have returned the stream reads as K events with
\* sequence numbers 1..K.
BurstAllSucceed ==
    /\ \A t \in 1..BurstTasks : pc[t] # "failed"
    /\ (\A t \in 1..BurstTasks : pc[t] = "done") =>
          /\ Len(GetEvents(events["game_events"], BurstStream)) = BurstTasks
          /\ {r.sequenceNumber : r \in StreamRows(events["game_events"], BurstStream)}
                = 1..BurstTasks

SolveRowsOf(pid, gid) == {r \in puzzleSolves : r.pid = pid /\ r.gid = gid}

CallsOf(pid, gid) == {c \in SolveCalls : sreq[c].pid = pid /\ sreq[c].gid = gid}

\* C3: once two parallel recordSolve calls for the same (pid, gid) of an
\* existing puzzle have both returned, there is exactly one solve row for
\* (pid, gid) and times_solved has grown by exactly 1.
ParallelSolveOnce ==
    \A pid \in ExistingPids, gid \in GameIds :
        (/\ Cardinality(CallsOf(pid, gid)) >= 2
         /\ \A c \in SolveCalls : spc[c] = "done" /\ sreq[c].pid = pid /\ sreq[c].gid = gid)
        => /\ Cardinality(SolveRowsOf(pid, gid)) = 1
           /\ puzzles[pid] = 1

\* C4: after one or more recordSolve calls for (pid, gid) made one after
\* another, there is exactly one solve row for (pid, gid), every call has
\* returned success, and times_solved of each puzzle counts one increment
\* per solved game.
SequentialSolveIdempotent ==
    (\A c \in SolveCalls : spc[c] \in {"idle", "done"}) =>
        /\ \A c \in SolveCalls : sError[c] = "none"
        /\ \A pid \in RequestPids, gid \in GameIds :
              CallsOf(pid, gid) # {} => Cardinality(SolveRowsOf(pid, gid)) = 1
        /\ \A pid \in ExistingPids :
              puzzles[pid] = Cardinality({gid \in GameIds : CallsOf(pid, gid) # {}})

\* Every call has returned from recordSolve with the same (pid, gid), the
\* later ones with another time_to_solve.
SequentialSolveIdempotentWitness ==
    /\ \A c \in SolveCalls : spc[c] = "done" /\ sreq[c].pid = "p1" /\ sreq[c].gid = "g1"
    /\ \E c, d \in SolveCalls : sreq[c].time_to_solve # sreq[d].time_to_solve
    /\ puzzles["p1"] = 1

\* C5: in every committed state the times_solved of an existing puzzle equals
\* the number of its committed solve rows (row and increment commit together
\* or not at all), and a call that failed has left no row behind.
SolveAtomic ==
    /\ \A pid \in ExistingPids :
          puzzles[pid] = Cardinality({r \in puzzleSolves : r.pid = pid})
    /\ \A c \in SolveCalls :
          spc[c] = "failed" => \A r \in puzzleSolves : r.id # c

\* A call failed at its increment, after its insert, while another call's
\* row and increment are committed.
SolveAtomicWitness ==
    \E c, d \in SolveCalls :
        /\ spc[c] = "failed" /\ sError[c] = "increment" /\ sreq[c].pid \in ExistingPids
        /\ spc[d] = "done" /\ sreq[d].pid = sreq[c].pid /\ puzzles[sreq[d].pid] = 1

\* No object whose '.sv' is 'timestamp' anywhere in v.
RECURSIVE NoSentinelIn(_)
NoSentinelIn(v) ==
    /\ ~HasSvTimestamp(v)
    /\ IsObj(v) => \A k \in DOMAIN v.obj : NoSentinelIn(v.obj[k])
    /\ IsArr(v) => \A i \in DOMAIN v.arr : NoSentinelIn(v.arr[i])

\* v is d with every sentinel object replaced by a server timestamp number,
\* and nothing else changed: same keys, same lengths, same other values.
RECURSIVE SameButStamped(_, _)
SameButStamped(d, v) ==
    IF HasSvTimestamp(d)
    THEN "num" \in DOMAIN v /\ v.num \in ServerTimes
    ELSE IF IsObj(d)
         THEN /\ IsObj(v)
              /\ DOMAIN v.obj = DOMAIN d.obj
              /\ \A k \in DOMAIN d.obj : SameButStamped(d.obj[k], v.obj[k])
         ELSE IF IsArr(d)
              THEN /\ IsArr(v)
                   /\ Len(v.arr) = Len(d.arr)
                   /\ \A i \in 1..Len(d.arr) : SameButStamped(d.arr[i], v.arr[i])
              ELSE v = d

\* The payloads persisted and pushed for the draft of task t.
PersistedOf(t) == {r.eventPayload : r \in {r \in events[TableOf(req[t].kind)] :
                                             r.eventPayload.src = t}}
PushedOf(t) == {f \in UNION {Range(inbox[s]) : s \in Sockets} : f.src = t}

CellsTouched(e) ==
    LET p == e.body.params
    IN  IF "scope" \in DOMAIN p
        THEN {<<p.scope[i].row, p.scope[i].col>> : i \in 1..Len(p.scope)}
        ELSE {<<p.row, p.col>>}

\* The distinct cells touched by the events of one type in a list of events.
TouchedBy(evs, type) ==
    UNION {CellsTouched(evs[i]) :
              i \in {j \in 1..Len(evs) : evs[j].type = type /\ "params" \in DOMAIN evs[j].body}}

\* C12: the counts a recordSolve call takes from the game stream it reads are
\* the numbers of distinct cells touched by the stream's cell_reveal events
\* and by its cell_check events (scope cells when there is a scope, the single
\* cell otherwise, a cell counted once, the two kinds apart), and the solve
\* row it commits stores these counts.
SquareCountsMatch ==
    [][/\ \A c \in SolveCalls :
             (spc[c] = "idle" /\ spc'[c] = "find") =>
                 LET evs == GetEvents(events["game_events"], sreq'[c].gid)
                 IN  /\ sreq'[c].revealedSquaresCount
                           = Cardinality(TouchedBy(evs, "cell_reveal"))
                     /\ sreq'[c].checkedSquaresCount
                           = Cardinality(TouchedBy(evs, "cell_check"))
       /\ \A r \in puzzleSolves' \ puzzleSolves :
             /\ r.revealedSquaresCount = sreq[r.id].revealedSquaresCount
             /\ r.checkedSquaresCount = sreq[r.id].checkedSquaresCount]_vars

\* A solve row with 2 revealed and 1 checked squares is committed for a game
\* of three events: two reveals that touch one cell twice, one of them through
\* its scope, and a check.
SquareCountsMatchWitness ==
    LET evs == GetEvents(events["game_events"], CountedGame)
    IN  /\ Len(evs) = 3
        /\ \E i, j \in 1..3 :
              /\ i # j
              /\ evs[i].type = "cell_reveal" /\ evs[j].type = "cell_reveal"
              /\ "params" \in DOMAIN evs[i].body /\ "params" \in DOMAIN evs[j].body
              /\ "scope" \in DOMAIN evs[i].body.params
              /\ CellsTouched(evs[i]) \cap CellsTouched(evs[j]) # {}
        /\ \E r \in puzzleSolves :
              /\ r.gid = CountedGame
              /\ r.revealedSquaresCount = 2
              /\ r.checkedSquaresCount = 1

\* C13: with the bus configured, a subscriber on instance A joined to a stream
\* is pushed the events published for it on instance B in ascending order of
\* their sequence numbers, none of them twice, and, once the bus has nothing
\* left to deliver, every event committed since it joined.
CrossInstanceOrderedOnce ==
    \A s \in RemoteSockets :
        /\ \A i, j \in 1..Len(inbox[s]) :
              LET a == inbox[s][i].src
                  b == inbox[s][j].src
              IN  (i < j /\ req[a].id = req[b].id) =>
                      \A ra \in CommittedRowsOf(a), rb \in CommittedRowsOf(b) :
                          ra.sequenceNumber < rb.sequenceNumber
        /\ (\A i \in Instances : bus[i] = <<>>) =>
              \A t \in PublishingHandlers :
                  (pc[t] = "done" /\ s \in owed[t]) => PayloadOf(t) \in Range(inbox[s])

\* The capacity of a subscriber's outbound queue.
MaxQueue == 1

\* C14: the outbound queue of every subscriber is bounded: it never holds
\* more than its capacity, because a subscriber whose queue is full when an
\* event is fanned out is dropped instead of being given the frame (and the
\* other subscribers of the stream are given it).
OutboundQueueBounded ==
    \A s \in Sockets : rooms[s] # {} => Len(OutboundQueue(s)) <= MaxQueue

\* The error frames of the sockets other than s, and everything pushed and
\* joined, are the same after the step as before it.
OnlyErrorFrameTo(s) ==
    /\ \A o \in Sockets \ {s} : errors'[o] = errors[o]
    /\ inbox' = inbox
    /\ rooms' = rooms

\* C15: a step in which the handling of a game_event, room_event or sync
\* request fails sends an error frame to the requesting socket and changes
\* nothing else of any socket: the sender and the others stay joined to the
\* streams they had joined (no handler closes a connection), and nobody is
\* pushed a frame for the request, then or later.
ErrorFrameOnly ==
    [][/\ \A t \in Tasks :
             (pc[t] # "failed" /\ pc'[t] = "failed" /\ req'[t].kind \in SocketKinds) =>
                 /\ <<req'[t].kind, t>> \in errors'[SenderOf(t)] \ errors[SenderOf(t)]
                 /\ OnlyErrorFrameTo(SenderOf(t))
       /\ \A s \in Sockets :
             (synced'[s].tick # synced[s].tick /\ ~synced'[s].ok) =>
                 /\ <<"sync", 0>> \in errors'[s]
                 /\ synced'[s].reply = <<>>
                 /\ OnlyErrorFrameTo(s)
       /\ \A t \in Tasks :
             (pc'[t] = "failed" /\ req'[t].kind \in SocketKinds) =>
                 \A s \in Sockets : \A i \in 1..Len(inbox'[s]) : inbox'[s][i].src # t]_vars

\* The sender's event failed to append and its sync failed while it and
\* another socket are joined to the stream: it holds both error frames, the
\* other socket none, and neither has been pushed anything.
ErrorFrameOnlyWitness ==
    \E s, o \in Sockets :
        /\ s = SenderOf(StampTask) /\ o # s
        /\ pc[StampTask] = "failed"
        /\ RoomName(req[StampTask].kind, req[StampTask].id) \in rooms[s] \cap rooms[o]
        /\ errors[s] = {<<req[StampTask].kind, StampTask>>, <<"sync", 0>>}
        /\ errors[o] = {}
        /\ inbox[s] = <<>> /\ inbox[o] = <<>>

\* C16: a getGameState call returns null when the game's stream has no
\* events, fails with the no-create-event error when the stream has events
\* but none of type create, and returns a projected state only when the
\* stream has a create event.
NoStateWithoutCreate ==
    [][gameState'.tick # gameState.tick =>
          LET rows == GameRows(gameState'.gid)
              result == gameState'.result
          IN  /\ rows = {} => result = [null |-> TRUE]
              /\ (rows # {} /\ \A r \in rows : r.eventPayload.type # "create") =>
                    /\ "error" \in DOMAIN result
                    /\ result.error = "Game state cannot be reconstructed without create event"
              /\ "state" \in DOMAIN result =>
                    \E r \in rows : r.eventPayload.type = "create"]_vars

\* The last call failed for a game of three events without a create event,
\* while the other game has no events.
NoStateWithoutCreateWitness ==
    /\ "error" \in DOMAIN gameState.result
    /\ Cardinality(GameRows(gameState.gid)) = 3
    /\ \E g \in GameIds : GameRows(g) = {}

\* Task t's createGame call returns in this step.
CreateGameReturns(t) ==
    /\ req[t].kind = "createGame"
    /\ pc[t] = "commit"
    /\ pc'[t] = "done"

\* C17: when a createGame call succeeds for a game whose stream had no events,
\* the stream then consists of exactly one row: sequence number 1, type
\* create, carrying the requested pid (so the create event is the first event
\* of the game).
CreateIsFirstEvent ==
    [][\A t \in Writers :
          (CreateGameReturns(t) /\ GameRows(req[t].id) = {}) =>
              LET after == StreamRows(events'["game_events"], req[t].id)
              IN  /\ Cardinality(after) = 1
                  /\ \A r \in after :
                        /\ r.sequenceNumber = 1
                        /\ r.eventPayload.type = "create"
                        /\ r.eventPayload.body.params.pid = req[t].pid
                  /\ GetEvents(events'["game_events"], req[t].id)[1].type = "create"]_vars

\* A createGame call has returned, its create event is the only event of its
\* game, and another caller's attempt on that game had to be retried.
CreateIsFirstEventWitness ==
    \E t \in Writers :
        /\ req[t].kind = "createGame"
        /\ pc[t] = "done"
        /\ Cardinality(GameRows(req[t].id)) = 1
        /\ \E o \in Writers \ {t} : req[o].id = req[t].id /\ attempt[o] > 0

\* Task t's request is a createGame for a pid without a puzzle.
CreatesForMissingPuzzle(t) ==
    req'[t].kind = "createGame" /\ req'[t].pid \notin DOMAIN puzzles'

\* C18: a createGame call for a pid that has no puzzle fails with
\* NotFoundError at once and leaves every event stream unchanged; no row of
\* that call is ever written, so no create event is appended for its gid.
NoGameWithoutPuzzle ==
    [][\A t \in Writers :
          CreatesForMissingPuzzle(t) =>
              /\ pc'[t] = "failed"
              /\ thrown'[t] = "NotFoundError"
              /\ txRow'[t] = {}
              /\ pc[t] = "idle" => events' = events
              /\ \A tb \in DOMAIN events' :
                    \A r \in events'[tb] : r.eventPayload.src # t]_vars

\* A createGame call failed with NotFoundError for a game that another caller
\* created, and a third caller is about to write to that game.
NoGameWithoutPuzzleWitness ==
    \E t, o, w \in Writers :
        /\ req[t].kind = "createGame" /\ thrown[t] = "NotFoundError"
        /\ req[o].kind = "createGame" /\ pc[o] = "done" /\ req[o].id = req[t].id
        /\ pc[w] = "commit" /\ req[w].id = req[t].id

\* C19: whatever clock_update events follow a game's create event (start,
\* pause, resume in any order, with or without a carried totalTime), the
\* projected clock has a boolean paused and a totalTime of at least 0.
ClockWithinRange ==
    "state" \in DOMAIN gameState.result =>
        /\ gameState.result.state.clock.paused \in BOOLEAN
        /\ gameState.result.state.clock.totalTime >= 0

\* C20: the state projected from a snapshot (the projection of the game's
\* events up to sequence number k) and the events getEventsAfterSequence
\* returns for k is the state projected from all events of the game.
SnapshotEquivalence ==
    [][(gameState'.tick # gameState.tick /\ gameState'.from = "snapshot") =>
          gameState'.result = getGameState(events["game_events"], gameState'.gid)]_vars

\* A state was projected from a snapshot taken at sequence number 2 of a game
\* of three events, the last of them a chat message after an earlier one.
SnapshotEquivalenceWitness ==
    /\ gameState.from = "snapshot"
    /\ \E sn \in snapshots[gameState.gid] : sn.snapshotVersion = 2
    /\ Cardinality(GameRows(gameState.gid)) = 3
    /\ Len(gameState.result.state.chat.messages) = 2

\* C21: the snapshot getSnapshot returns for a game never has a
\* snapshotVersion above the number of events committed to the game's
\* stream.
SnapshotNotAhead ==
    \A gid \in GameIds :
        \A sn \in getSnapshot(snapshots, gid) :
            sn.snapshotVersion <= Cardinality(GameRows(gid))

\* The committed events of a room before a step, ascending.
RoomEvents(rid) == GetEvents(events["room_events"], rid)

\* The positions of the user_join / user_leave events of a user.
MemberPositions(evs, u) ==
    {i \in DOMAIN evs :
        /\ evs[i].type \in {"user_join", "user_leave"}
        /\ evs[i].body.params.userId = u}

\* The most recent of them.
LatestOf(evs, u) ==
    CHOOSE i \in MemberPositions(evs, u) : \A j \in MemberPositions(evs, u) : j <= i

\* The users whose most recent user_join / user_leave event is a user_join.
PresentUsers(evs) ==
    {u \in {"u1", "u2"} :
        MemberPositions(evs, u) # {} /\ evs[LatestOf(evs, u)].type = "user_join"}

\* C22: the users of a projected room state are exactly the users whose most
\* recent user_join / user_leave event is a user_join, each listed once, with
\* the display name and the timestamp of that join.
UsersAreLatestJoins ==
    [][(roomState'.tick # roomState.tick /\ "state" \in DOMAIN roomState'.result) =>
          LET evs == RoomEvents(roomState'.rid)
              users == roomState'.result.state.users
          IN  /\ {users[i].userId : i \in DOMAIN users} = PresentUsers(evs)
              /\ Len(users) = Cardinality(PresentUsers(evs))
              /\ \A i \in DOMAIN users :
                    LET last == evs[LatestOf(evs, users[i].userId)]
                    IN  /\ users[i].displayName = last.body.params.displayName
                        /\ users[i].joinedAt = last.body.timestamp]_vars

\* The state of a room was projected in which a user joined, left and joined
\* again under another name.
UsersAreLatestJoinsWitness ==
    /\ "state" \in DOMAIN roomState.result
    /\ roomState.result.state.users =
          <<[userId |-> "u1", displayName |-> "Bob", joinedAt |-> 20]>>
    /\ Len(RoomEvents(roomState.rid)) = 3
    /\ RoomEvents(roomState.rid)[2].type = "user_leave"
    /\ MemberPositions(RoomEvents(roomState.rid), "u1") = 1..3

\* The positions of the room_settings_update events that carry a key.
UpdatesOf(evs, key) ==
    {i \in DOMAIN evs :
        /\ evs[i].type = "room_settings_update"
        /\ key \in DOMAIN evs[i].body.params.settings}

\* C23: the projected settings of a room have exactly the keys carried by its
\* room_settings_update events, each with the value of the last update that
\* carries it.
SettingsAreMerged ==
    [][(roomState'.tick # roomState.tick /\ "state" \in DOMAIN roomState'.result) =>
          LET evs == RoomEvents(roomState'.rid)
              settings == roomState'.result.state.settings
          IN  /\ DOMAIN settings = {key \in {"gameMode", "maxPlayers"} : UpdatesOf(evs, key) # {}}
              /\ \A key \in DOMAIN settings :
                    LET last == CHOOSE i \in UpdatesOf(evs, key) :
                                   \A j \in UpdatesOf(evs, key) : j <= i
                    IN  settings[key] = evs[last].body.params.settings[key]]_vars

\* The settings of a room were projected after an update of both keys that
\* was followed by an update of one of them.
SettingsAreMergedWitness ==
    /\ "state" \in DOMAIN roomState.result
    /\ roomState.result.state.settings = [gameMode |-> "casual", maxPlayers |-> "8"]
    /\ Len(RoomEvents(roomState.rid)) = 3

\* C24: the first and the second page of listPublic for a limit have no
\* puzzle in common, and no page has a puzzle that is not public.
PagesDisjoint ==
    LET firstPids == {pages.first[i] : i \in DOMAIN pages.first}
        secondPids == {pages.second[i] : i \in DOMAIN pages.second}
    IN  /\ firstPids \cap secondPids = {}
        /\ \A pid \in firstPids \cup secondPids :
              \E r \in catalog : r.pid = pid /\ r.isPublic

\* C25: every step raises the times_solved of each puzzle by exactly the
\* number of incrementSolveCount calls for it that take effect in the step
\* (one for the puzzle of the call, none for any other puzzle), so after k
\* calls, made one after another or concurrently, it is k higher than at
\* the start.
NoLostIncrement ==
    [](\A p \in DOMAIN puzzles : puzzles[p] = incrementCalls[p])
    /\ [][\A p \in DOMAIN puzzles :
             puzzles'[p] - puzzles[p] = incrementCalls'[p] - incrementCalls[p]]_vars

\* A puzzle was incremented by a call of its own while a recordSolve
\* transaction held another increment of it, and both took effect.
NoLostIncrementWitness ==
    \E p \in DOMAIN puzzles :
        /\ puzzles[p] = MaxIncrements + NumSolveCalls
        /\ \A c \in SolveCalls : spc[c] = "done" /\ sreq[c].pid = p

\* C26: an addEvent call runs at most maxRetries (5) insert transactions: a
\* unique-index violation on one of the first four attempts is followed by
\* another attempt, a violation on the fifth makes the call fail with the
\* unique-violation error, and every call ends.
BoundedRetries ==
    /\ [](\A t \in 1..BurstTasks : attempt[t] <= maxRetries - 1)
    /\ [][\A t \in 1..BurstTasks :
             /\ (pc[t] = "insert" /\ pc'[t] = "select") =>
                   attempt[t] < maxRetries - 1 /\ attempt'[t] = attempt[t] + 1
             /\ (pc[t] = "insert" /\ pc'[t] = "failed") =>
                   attempt[t] = maxRetries - 1 /\ thrown'[t] = "23505"]_vars
    /\ <>(\A t \in 1..BurstTasks : AddEventEnded(t))

\* A call has failed on its fifth attempt while the five others succeeded.
BoundedRetriesWitness ==
    \E t \in 1..BurstTasks :
        /\ pc[t] = "failed" /\ thrown[t] = "23505"
        /\ \A o \in 1..BurstTasks \ {t} : pc[o] = "done"

\* C27: an addEvent attempt that fails with a store or transport error is
\* not retried: the call throws that error at once, the step inserts
\* nothing, and no row of the call is in the store then or later.
NoRetryOnStoreError ==
    [][\A t \in Writers :
          thrown'[t] = "StoreError" =>
              /\ pc'[t] = "failed"
              /\ txRow'[t] = {}
              /\ thrown[t] # "StoreError" => events' = events
              /\ \A tb \in DOMAIN events' :
                    \A r \in events'[tb] : r.eventPayload.src # t]_vars

\* A call failed with a store error on a stream to which another call has
\* committed its event and a third holds an uncommitted one.
NoRetryOnStoreErrorWitness ==
    \E t, o, w \in Writers :
        /\ thrown[t] = "StoreError"
        /\ pc[o] = "done" /\ req[o].id = req[t].id
        /\ pc[w] = "commit" /\ req[w].id = req[t].id

CounterOnlyBySolve ==
    \A p \in DOMAIN puzzles :
        puzzles[p] = Cardinality({r \in puzzleSolves : r.pid = p})

\* The state projected from the first k events of a game that has a create
\* event among them.
ProjectedAfter(gid, k) ==
    reconstructGameState(gid, PrefixUpTo(events["game_events"], gid, k)).state

\* The event at position k of a game is a clock_update on a clock that
\* already is in the state the action leads to.
RedundantTransition(gid, k) ==
    LET action == GetEvents(events["game_events"], gid)[k].body.params.action
        paused == ProjectedAfter(gid, k - 1).clock.paused
    IN  IF action = "pause" THEN paused ELSE ~paused

\* C30: in the projection of a game, a start or resume event leaves the
\* clock running and a pause event leaves it paused, and a clock_update
\* that is redundant (start or resume while running, pause while paused)
\* leaves the whole clock state as it was.
RedundantClockUpdateIsNoOp ==
    \A gid \in GameIds :
        LET evs == GetEvents(events["game_events"], gid)
        IN  \A k \in 2..Len(evs) :
                (evs[k].type = "clock_update" /\ CreatePositions(SubSeq(evs, 1, k - 1)) # {}) =>
                    /\ ProjectedAfter(gid, k).clock.paused = (evs[k].body.params.action = "pause")
                    /\ RedundantTransition(gid, k) =>
                          ProjectedAfter(gid, k).clock = ProjectedAfter(gid, k - 1).clock

\* The timestamp of the start or resume event that made the clock run at
\* position k of a game: the latest one before k applied to a paused clock.
RunningSince(gid, k) ==
    LET evs == GetEvents(events["game_events"], gid)
        starts == {j \in 2..(k - 1) :
                      /\ evs[j].type = "clock_update"
                      /\ evs[j].body.params.action \in {"start", "resume"}
                      /\ CreatePositions(SubSeq(evs, 1, j - 1)) # {}
                      /\ ProjectedAfter(gid, j - 1).clock.paused}
    IN  evs[CHOOSE j \in starts : \A i \in starts : i <= j].body.timestamp

\* C31: in the projection of a game, a pause event applied while the clock
\* is running adds (its timestamp - the timestamp of the start or resume
\* that made the clock run) to totalTime.
PauseAddsElapsed ==
    \A gid \in GameIds :
        LET evs == GetEvents(events["game_events"], gid)
        IN  \A k \in 2..Len(evs) :
                (/\ evs[k].type = "clock_update"
                 /\ evs[k].body.params.action = "pause"
                 /\ CreatePositions(SubSeq(evs, 1, k - 1)) # {}
                 /\ ~ProjectedAfter(gid, k - 1).clock.paused) =>
                    ProjectedAfter(gid, k).clock.totalTime =
                        ProjectedAfter(gid, k - 1).clock.totalTime
                        + evs[k].body.timestamp - RunningSince(gid, k)

\* The positions of the cell_fill, cell_clear and cell_reveal events of a
\* list that touch the cell (r, c).
CellWrites(evs, r, c) ==
    {k \in 1..Len(evs) :
        /\ evs[k].type \in {"cell_fill", "cell_clear", "cell_reveal"}
        /\ "params" \in DOMAIN evs[k].body
        /\ <<r, c>> \in CellsTouched(evs[k])}

\* What the last writer of a cell leaves in it.
CellIsAsWritten(cell, event, solution) ==
    IF event.type = "cell_fill"
    THEN "value" \in DOMAIN cell /\ cell.value = event.body.params.value
    ELSE IF event.type = "cell_clear"
    THEN "value" \in DOMAIN cell => cell.value = ""
    ELSE /\ "value" \in DOMAIN cell /\ cell.value = solution
         /\ "revealed" \in DOMAIN cell /\ cell.revealed = TRUE

\* C32: in the projection of a game, each cell of the grid is as its last
\* cell_fill, cell_clear or cell_reveal event in seq order left it (the
\* filled value, blank, or the solution's letter with revealed = true), and
\* a cell that no such event touches is as in the create event.
GridLastWriterWins ==
    \A gid \in GameIds :
        LET evs == GetEvents(events["game_events"], gid)
            result == reconstructGameState(gid, evs)
        IN  (Len(evs) > 0 /\ "state" \in DOMAIN result /\ "grid" \in DOMAIN result.state.game) =>
                LET grid == result.state.game.grid
                    created == evs[CHOOSE i \in CreatePositions(evs) :
                                      \A j \in CreatePositions(evs) : i <= j]
                IN  \A r \in DOMAIN grid : \A c \in DOMAIN grid[r] :
                        LET writes == CellWrites(evs, r - 1, c - 1)
                        IN  IF writes = {}
                            THEN grid[r][c] = created.body.params.game.grid[r][c]
                            ELSE CellIsAsWritten(
                                     grid[r][c],
                                     evs[CHOOSE k \in writes : \A i \in writes : i <= k],
                                     result.state.game.solution[r][c])

\* The runner is between getting the lock and the finally block: it runs
\* the statements of the apply loop.
InApplyLoop(p) == migrationRun[p].pc \in {"check", "apply", "record"}

\* The runner's run was refused the lock.
LockRefused(p) ==
    migrationRun[p].error \in {"Could not acquire migration lock",
                               "Failed to acquire migration lock"}

\* C33: of the processes that run runMigrations at the same time at most one
\* is executing migration statements at any moment, and it holds the
\* advisory lock; a process that does not obtain the lock fails with an
\* error, and no step of its run applies or records a migration.
OneRunnerMigrates ==
    /\ [](\A p, q \in Runners : (InApplyLoop(p) /\ InApplyLoop(q)) => p = q)
    /\ [](\A p \in Runners : InApplyLoop(p) => advisoryLock = p)
    /\ [][\A p \in Runners :
             (migrationRun'[p] # migrationRun[p] /\ LockRefused(p)') =>
                 /\ migrationRun'[p].pc \in {"end", "failed"}
                 /\ UNCHANGED <<drizzle_migrations, applied>>]_vars

\* One runner is in a migration's transaction while the other, which asked
\* for the lock meanwhile, has failed.
OneRunnerMigratesWitness ==
    \E p, q \in Runners :
        /\ migrationRun[p].pc = "record"
        /\ migrationRun[q].pc = "failed"
        /\ migrationRun[q].error = "Could not acquire migration lock"

\* C34: once runMigrations has acquired the advisory lock, the lock is
\* released before the call returns or throws: after the finally block of
\* the loop the runner no longer holds it unless the unlock query itself
\* failed (which is logged), and once the connection is ended it never does,
\* also when a migration failed midway.
LockReleasedOnExit ==
    \A p \in Runners :
        /\ (migrationRun[p].pc = "end" /\ ~migrationRun[p].warned) => advisoryLock # p
        /\ migrationRun[p].pc \in {"idle", "done", "failed"} => advisoryLock # p

\* A run failed in the middle of a migration, and a later run of another
\* runner holds the lock.
LockReleasedOnExitWitness ==
    \E p, q \in Runners :
        /\ migrationRun[p].pc = "failed"
        /\ migrationRun[p].error = "migration failed"
        /\ advisoryLock = q
        /\ migrationRun[q].pc = "apply"
        /\ Len(applied) = 1

\* C35: across the runs of runMigrations, one after another or overlapping,
\* with migrations that fail, the files whose SQL was committed are in
\* ascending file-name order with no file twice, and the rows of
\* drizzle_migrations are the hashes of exactly those files.
AppliedOnceInOrder ==
    /\ \A i, j \in DOMAIN applied :
          i < j => TextLess(applied[i].text, applied[j].text)
    /\ \A i \in DOMAIN applied : applied[i] \in {f \in MigrationsFolder : f.ext = ".sql"}
    /\ drizzle_migrations = [i \in DOMAIN applied |-> HashOf(applied[i])]

\* Both files are applied, the second one by a later run than the one that
\* failed on it.
AppliedOnceInOrderWitness ==
    /\ Len(applied) = 2
    /\ \E p, q \in Runners :
          /\ p # q
          /\ migrationRun[p].pc = "failed" /\ migrationRun[p].error = "migration failed"
          /\ migrationRun[q].pc = "done"

\* The committed rows, in either table, that hold the event of task t.
RowsAddedBy(t) ==
    UNION {{<<tb, r>> : r \in {x \in events[tb] : x.eventPayload.src = t}} :
              tb \in DOMAIN events}

\* C36: an addEvent call that has returned has added exactly one row, to its
\* stream, and one that has thrown, or has not ended, has added none,
\* whatever the number of its attempts and what other writers did meanwhile.
OneRowPerSuccess ==
    \A t \in 1..BurstTasks :
        /\ pc[t] \in {"done", "emit"} =>
              /\ Cardinality(RowsAddedBy(t)) = 1
              /\ \A x \in RowsAddedBy(t) :
                    x[1] = TableOf(req[t].kind) /\ x[2].id = req[t].id
        /\ pc[t] \notin {"done", "emit"} => RowsAddedBy(t) = {}

\* One call threw after its last attempt, having lost its number to each of
\* the other calls in turn, which all returned: the stream has their rows.
OneRowPerSuccessWitness ==
    \E o \in 1..BurstTasks :
        /\ pc[o] = "failed" /\ thrown[o] = "23505"
        /\ Cardinality(events["game_events"]) = BurstTasks - 1
        /\ \A t \in 1..BurstTasks \ {o} : Cardinality(RowsAddedBy(t)) = 1

\* The requests made over sockets: game_event and room_event messages.
SocketRequests == {t \in Tasks : req[t].kind \in SocketKinds}

\* C37: in the game_event and room_event handlers the ack is called exactly
\* once per request, when the handler ends; an ack that no error frame for
\* the request precedes implies that the event is committed to the store,
\* and an ack that follows the error frame implies that it is not.
AckTellsOutcome ==
    \A t \in SocketRequests :
        /\ Len(acks[t]) <= 1
        /\ Len(acks[t]) = 1 <=> pc[t] \in {"done", "failed"}
        /\ \A i \in DOMAIN acks[t] :
              IF acks[t][i].afterError
              THEN CommittedRowsOf(t) = {}
              ELSE Cardinality(CommittedRowsOf(t)) = 1

\* The socket has sent two requests: one was acknowledged after its event
\* was committed, the other after an error frame.
AckTellsOutcomeWitness ==
    \E t, o \in SocketRequests :
        /\ SenderOf(t) = SenderOf(o)
        /\ acks[t] = <<[afterError |-> FALSE]>> /\ CommittedRowsOf(t) # {}
        /\ acks[o] = <<[afterError |-> TRUE]>> /\ thrown[o] = "StoreError"

\* C38: every game stream that has events has a create event at seq 1 and
\* no create event at any other seq, whatever createGame calls and socket
\* game_event messages wrote to it.
CreateOnlyAtSeqOne ==
    \A gid \in GameIds :
        GameRows(gid) # {} =>
            /\ \E r \in GameRows(gid) : r.sequenceNumber = 1
            /\ \A r \in GameRows(gid) :
                  r.sequenceNumber = 1 <=> r.eventPayload.type = "create"

\* C39: the revealed and checked counts of a solve row are the counts over
\* the events of the game that are committed when the row's transaction
\* commits, also when reveals and checks are appended while recordSolve runs.
CountsAtSolveCommit ==
    [][\A r \in puzzleSolves' \ puzzleSolves :
          LET counts == calculateSquareCounts(GetEvents(events["game_events"], r.gid))
          IN  /\ r.revealedSquaresCount = counts.revealedSquaresCount
              /\ r.checkedSquaresCount = counts.checkedSquaresCount]_vars

\* C40: a recordSolve call for a (pid, gid) that has a solve row returns
\* success at its existence check, and its step leaves the solve rows and
\* every puzzle's times_solved as they were, whatever time_to_solve it was
\* called with and whatever reveals and checks were appended since the row.
SolvedGameUntouched ==
    [][\A c \in SolveCalls :
          (/\ spc[c] = "find" /\ spc'[c] # "find"
           /\ FindByPidAndGid(puzzleSolves, sreq[c].pid, sreq[c].gid) # {}) =>
              /\ spc'[c] = "done"
              /\ sError'[c] = "none"
              /\ UNCHANGED <<puzzleSolves, puzzles, txSolve, txIncr>>]_vars

\* The game has its one solve row and the puzzle its one solve; a later call
\* with another time_to_solve, made after a reveal was appended, has returned.
SolvedGameUntouchedWitness ==
    \E c \in SolveCalls :
        /\ spc[c] = "done"
        /\ Cardinality(puzzleSolves) = 1 /\ puzzles["p1"] = 1
        /\ \A r \in puzzleSolves :
              /\ r.id # c /\ r.pid = sreq[c].pid /\ r.gid = sreq[c].gid
              /\ r.timeTakenSeconds # sreq[c].time_to_solve
              /\ r.revealedSquaresCount < sreq[c].revealedSquaresCount

====
